---- MODULE Spec2Model ----
(***************************************************************************)
(* Position ledger (OrderManager), risk gate (RiskManager) and backtest    *)
(* loop (Backtester) of the AlgoTrading repository.                        *)
(*                                                                         *)
(* Spec          the ledger on the paper-trading path                      *)
(* SpecRisk      a RiskManager on its own                                  *)
(* SpecStops     the ledger under bracket checks and mass closes           *)
(* SpecLive      the ledger with config.TRADING_MODE = "live"              *)
(* SpecThreads   two threads inside place_order at once                    *)
(* SpecBacktest  Backtester.run, bar by bar                                *)
(* SpecSignals   the strategies' indicators and signals, before the loop   *)
(* SpecPnl       OrderManager.get_total_pnl                                *)
(* SpecLedger    a trading day: every ledger operation, and the reset      *)
(* SpecNotional  Buys at the edges of the order-value limits               *)
(*                                                                         *)
(* Prices and amounts are integers (rupees).  None and 0 coincide wherever *)
(* the code reads an optional number: `price or 0`, `if position.stop_loss *)
(* and ...`, `if position.take_profit and ...`; both are written 0 here.   *)
(* Timestamps (entry_time, exit_time, the order's time) are not modelled.  *)
(***************************************************************************)
EXTENDS Integers, Sequences, FiniteSets, TLC

VARIABLES
    positions,          \* OrderManager.positions: dict symbol -> Position, in insertion order
    closed_positions,   \* OrderManager.closed_positions: list of closed Position
    orders,             \* OrderManager.orders: list of order records
    capital,            \* RiskManager.capital
    daily_pnl,          \* RiskManager.daily_pnl
    open_positions,     \* RiskManager.open_positions (a counter)
    max_open_positions, \* RiskManager.max_open_positions (config.MAX_OPEN_POSITIONS, from the environment)
    last,               \* the most recent call on the OrderManager: its arguments and what it returned
    trading_mode,       \* config.TRADING_MODE
    broker,             \* OrderManager.broker: "kite" or "none" (None)
    threads,            \* where each thread calling place_order stands
    bt                  \* the locals of Backtester.run

vars == <<positions, closed_positions, orders, capital, daily_pnl,
          open_positions, max_open_positions, last,
          trading_mode, broker, threads, bt>>

----------------------------------------------------------------------------
(* Bounds of the model *)

\* place_order is called directly only while it leaves the order log within
\* this many records (the sells of check_stop_loss_take_profit and
\* close_all_positions come on top, one for each open position at most)
MaxOrders == 2

\* config.MAX_OPEN_POSITIONS is 1 or MaxOpenCfg
MaxOpenCfg == 2

(* Program constants *)

CAPITAL == 100000
MAX_RISK_PER_TRADE == 2
MAX_DAILY_LOSS == 5
MIN_ORDER_VALUE == 500
MAX_ORDER_PCT == 30
DEFAULT_STOP_PCT == 2
DEFAULT_REWARD_RATIO == 2

(* Inputs *)

Symbols == {"A", "B"}
Quantities == {0, 10, 100}
Prices == {500, 1000}
SellPrices == {500, 1000}
SellQuantities == {10}
\* <<stop_loss, take_profit>>, 0 for none
Brackets == {<<0, 0>>, <<500, 1000>>}
SessionPrices == {2500}

\* place_order returns None
NULL == 0

----------------------------------------------------------------------------
(* Python helpers *)

Abs(x) == IF x < 0 THEN -x ELSE x

\* int(a / b) for b > 0: truncation toward zero
TruncDiv(a, b) == IF a >= 0 THEN a \div b ELSE -((-a) \div b)

\* `key in d` for a dict kept as the sequence of its values in insertion order
DictHas(d, symbol) == \E i \in 1..Len(d) : d[i].symbol = symbol

DictIndex(d, symbol) == CHOOSE i \in 1..Len(d) : d[i].symbol = symbol

DictGet(d, symbol) == d[DictIndex(d, symbol)]

SelectSeqNot(d, symbol) ==
    LET keep(p) == p.symbol # symbol IN SelectSeq(d, keep)

\* a store that appends without looking for the key
DictSetAppend(d, symbol, v) == Append(d, v)

\* d[symbol] = v: an existing key keeps its place and takes the new value
DictSet(d, symbol, v) ==
    IF DictHas(d, symbol)
    THEN [i \in 1..Len(d) |-> IF d[i].symbol = symbol THEN v ELSE d[i]]
    ELSE Append(d, v)

\* del d[symbol]
DictDel(d, symbol) == SelectSeqNot(d, symbol)

----------------------------------------------------------------------------
(* The state the OrderManager and its RiskManager share, as one record *)

State ==
    [positions |-> positions, closed_positions |-> closed_positions,
     orders |-> orders, capital |-> capital, daily_pnl |-> daily_pnl,
     open_positions |-> open_positions,
     max_open_positions |-> max_open_positions]

----------------------------------------------------------------------------
(* RiskManager *)

\* risk_amount = capital * (risk_percentage / 100) is a float product: for
\* these (|capital|, risk_percentage) it is short of the exact product,
\* 29 / 100 being the double 0.28999999999999998 and 100000 * 0.29 the
\* double 28999.999999999996; for the other inputs in use it is exact
RiskAmountIsShort(amount, risk_percentage) ==
    <<Abs(amount), risk_percentage>> \in {<<50000, 29>>, <<100000, 29>>}

\* int(risk_amount / price_risk), 0 when the price risk is 0: int() drops
\* the fraction of the float quotient, so a risk amount that is short of a
\* whole multiple of the price risk gives one unit less than the exact
\* quotient
calculate_position_size(st, entry_price, stop_loss_price, risk_percentage) ==
    LET price_risk == Abs(entry_price - stop_loss_price)
        exact == TruncDiv(st.capital * risk_percentage, 100 * price_risk)
        whole == (st.capital * risk_percentage) % (100 * price_risk) = 0
    IN  IF price_risk = 0 THEN 0
        ELSE IF RiskAmountIsShort(st.capital, risk_percentage) /\ whole
             THEN (IF exact > 0 THEN exact - 1 ELSE exact + 1)
        ELSE exact

\* entry_price * (1 - value / 100), method 'percentage'; exact for the
\* entry prices used here (multiples of 50 with value 2)
calculate_stop_loss(entry_price, value) ==
    TruncDiv(entry_price * (100 - value), 100)

calculate_take_profit(entry_price, stop_loss_price, reward_ratio) ==
    entry_price + Abs(entry_price - stop_loss_price) * reward_ratio

\* the first check with > for >=
AtMaxOpenPositionsOffByOne(st) == st.open_positions > st.max_open_positions

\* the first check of can_open_position
AtMaxOpenPositions(st) == st.open_positions >= st.max_open_positions

\* the second check with < for <=
AtDailyLossLimitStrict(st) ==
    IF st.capital > 0
    THEN st.daily_pnl * 100 < -MAX_DAILY_LOSS * st.capital
    ELSE st.daily_pnl * 100 > -MAX_DAILY_LOSS * st.capital

\* the second check: (daily_pnl / capital) * 100 <= -max_daily_loss, for a
\* capital that is not 0 (multiplying by a negative capital turns the
\* comparison round)
AtDailyLossLimit(st) ==
    IF st.capital > 0
    THEN st.daily_pnl * 100 <= -MAX_DAILY_LOSS * st.capital
    ELSE st.daily_pnl * 100 >= -MAX_DAILY_LOSS * st.capital

\* daily_pnl / capital raises ZeroDivisionError
DailyPnlPercentageRaises(st) == st.capital = 0

\* the first check with > for >=
can_open_position_strict(st) ==
    IF st.open_positions > st.max_open_positions THEN FALSE
    ELSE IF AtDailyLossLimit(st) THEN FALSE
    ELSE TRUE

\* what can_open_position returns when it returns
can_open_position(st) ==
    IF AtMaxOpenPositions(st) THEN FALSE
    ELSE IF AtDailyLossLimit(st) THEN FALSE
    ELSE TRUE

\* can_open_position raises: the count check passes and the division fails
can_open_position_raises(st) ==
    ~AtMaxOpenPositions(st) /\ DailyPnlPercentageRaises(st)

update_capital(st, new_capital) == [st EXCEPT !.capital = new_capital]

\* a reset that clears the open-position count as well
reset_daily_pnl_all(st) == [st EXCEPT !.daily_pnl = 0, !.open_positions = 0]

reset_daily_pnl(st) == [st EXCEPT !.daily_pnl = 0]

\* an update with = for +=
update_daily_pnl_replacing(st, pnl) == [st EXCEPT !.daily_pnl = pnl]

\* an update that books the P&L into the capital as well
update_daily_pnl_compounding(st, pnl) ==
    [st EXCEPT !.daily_pnl = @ + pnl, !.capital = @ + pnl]

update_daily_pnl(st, pnl) == [st EXCEPT !.daily_pnl = @ + pnl]

\* an increment by two
add_position_twice(st) == [st EXCEPT !.open_positions = @ + 2]

add_position(st) == [st EXCEPT !.open_positions = @ + 1]

\* a close that forgets the counter
close_position_skipped(st) == st

close_position(st) ==
    IF st.open_positions > 0 THEN [st EXCEPT !.open_positions = @ - 1] ELSE st

\* the messages validate_order returns; the amounts the third one formats
\* into its text are left out
MSG_RISK_LIMITS == "Cannot open new position due to risk limits"
MSG_EXCEEDS_LIMIT == "Order value exceeds limit"
MSG_TOO_SMALL == "Order value too small (minimum 500)"
MSG_VALIDATED == "Order validated successfully"

\* order_value > capital * 0.3
ExceedsMaxOrderValue(st, quantity, price) ==
    quantity * price * 100 > st.capital * MAX_ORDER_PCT

\* the minimum check against 0 for 500
BelowMinOrderValueOfZero(quantity, price) == quantity * price < 0

BelowMinOrderValue(quantity, price) == quantity * price < MIN_ORDER_VALUE

\* validate_order with the order-value checks ahead of can_open_position
validate_order_value_first(st, symbol, quantity, price) ==
    IF ExceedsMaxOrderValue(st, quantity, price)
    THEN [ok |-> FALSE, message |-> MSG_EXCEEDS_LIMIT]
    ELSE IF BelowMinOrderValue(quantity, price)
    THEN [ok |-> FALSE, message |-> MSG_TOO_SMALL]
    ELSE IF ~can_open_position(st)
    THEN [ok |-> FALSE, message |-> MSG_RISK_LIMITS]
    ELSE [ok |-> TRUE, message |-> MSG_VALIDATED]

validate_order(st, symbol, quantity, price) ==
    IF ~can_open_position(st)
    THEN [ok |-> FALSE, message |-> MSG_RISK_LIMITS]
    ELSE IF ExceedsMaxOrderValue(st, quantity, price)
    THEN [ok |-> FALSE, message |-> MSG_EXCEEDS_LIMIT]
    ELSE IF BelowMinOrderValue(quantity, price)
    THEN [ok |-> FALSE, message |-> MSG_TOO_SMALL]
    ELSE [ok |-> TRUE, message |-> MSG_VALIDATED]

----------------------------------------------------------------------------
(* Position *)

\* Position.__init__
Position(symbol, quantity, entry_price, stop_loss, take_profit, order_id) ==
    [symbol |-> symbol, quantity |-> quantity, entry_price |-> entry_price,
     stop_loss |-> stop_loss, take_profit |-> take_profit,
     order_id |-> order_id, status |-> "OPEN", exit_price |-> 0, pnl |-> 0]

\* a close that takes entry minus exit
PositionCloseInverted(position, exit_price) ==
    [position EXCEPT !.exit_price = exit_price,
                     !.pnl = (position.entry_price - exit_price) * position.quantity,
                     !.status = "CLOSED"]

\* Position.close
PositionClose(position, exit_price) ==
    [position EXCEPT !.exit_price = exit_price,
                     !.pnl = (exit_price - position.entry_price) * position.quantity,
                     !.status = "CLOSED"]

----------------------------------------------------------------------------
(* OrderManager *)

\* what a call of place_order leaves behind: the state, the value returned
\* and the message of validate_order ("" when it was not asked)
Outcome(st, ret, message) == [st |-> st, ret |-> ret, message |-> message]

\* the paper order id, f"PAPER_{now}": a fresh id for every call that passes
\* validation; each such call appends one order record, so the ids count them
NewPaperOrderId(st) == Len(st.orders) + 1

OrderRecord(order_id, symbol, transaction_type, quantity, price) ==
    [order_id |-> order_id, symbol |-> symbol,
     transaction_type |-> transaction_type, quantity |-> quantity,
     price |-> price, order_type |-> "MARKET", status |-> "PLACED"]

\* _place_paper_order: the state after it (the id it returns is NewPaperOrderId)
place_paper_order(st, symbol, transaction_type, quantity, price, stop_loss, take_profit) ==
    LET order_id == NewPaperOrderId(st)
    IN  IF transaction_type = "BUY"
        THEN add_position(
                 [st EXCEPT !.positions =
                     DictSet(@, symbol,
                             Position(symbol, quantity, price, stop_loss,
                                      take_profit, order_id))])
        ELSE IF transaction_type = "SELL" /\ DictHas(st.positions, symbol)
        THEN LET position == PositionClose(DictGet(st.positions, symbol), price)
                 counted == close_position(update_daily_pnl(st, position.pnl))
             IN  [counted EXCEPT
                     !.closed_positions = Append(@, position),
                     !.positions = DictDel(@, symbol)]
        ELSE st

\* a rejection that still records the order
RejectTracked(st, symbol, transaction_type, quantity, price, message) ==
    Outcome([st EXCEPT !.orders =
                 Append(@, OrderRecord(NULL, symbol, transaction_type, quantity, price))],
            NULL, message)

\* place_order when validate_order says no: return None
Reject(st, symbol, transaction_type, quantity, price, message) ==
    Outcome(st, NULL, message)

\* place_order with config.TRADING_MODE = "paper" and a risk manager attached
place_order(st, symbol, transaction_type, quantity, price, stop_loss, take_profit) ==
    LET v == IF transaction_type = "BUY"
             THEN validate_order(st, symbol, quantity, price)
             ELSE [ok |-> TRUE, message |-> ""]
    IN  IF ~v.ok
        THEN Reject(st, symbol, transaction_type, quantity, price, v.message)
        ELSE LET order_id == NewPaperOrderId(st)
                 filled == place_paper_order(st, symbol, transaction_type,
                                             quantity, price, stop_loss, take_profit)
             IN  Outcome([filled EXCEPT !.orders =
                             Append(@, OrderRecord(order_id, symbol,
                                                   transaction_type, quantity, price))],
                         order_id, v.message)

\* both tests made one after the other, the second not skipped when the
\* first has sold
RECURSIVE CheckStopsFromBoth(_, _, _, _)
CheckStopsFromBoth(st, snapshot, i, current_prices) ==
    IF i > Len(snapshot) THEN st
    ELSE LET position == snapshot[i]
             symbol == position.symbol
         IN  IF symbol \notin DOMAIN current_prices
             THEN CheckStopsFromBoth(st, snapshot, i + 1, current_prices)
             ELSE LET current_price == current_prices[symbol]
                      st1 == IF position.stop_loss # 0 /\ current_price <= position.stop_loss
                             THEN place_order(st, symbol, "SELL", position.quantity,
                                              current_price, 0, 0).st
                             ELSE st
                      st2 == IF position.take_profit # 0 /\ current_price >= position.take_profit
                             THEN place_order(st1, symbol, "SELL", position.quantity,
                                              current_price, 0, 0).st
                             ELSE st1
                  IN  CheckStopsFromBoth(st2, snapshot, i + 1, current_prices)

\* check_stop_loss_take_profit, from entry i of the snapshot
\* list(self.positions.items()) on
RECURSIVE CheckStopsFrom(_, _, _, _)
CheckStopsFrom(st, snapshot, i, current_prices) ==
    IF i > Len(snapshot) THEN st
    ELSE LET position == snapshot[i]
             symbol == position.symbol
         IN  IF symbol \notin DOMAIN current_prices
             THEN CheckStopsFrom(st, snapshot, i + 1, current_prices)
             ELSE LET current_price == current_prices[symbol]
                  IN  IF position.stop_loss # 0 /\ current_price <= position.stop_loss
                      THEN CheckStopsFrom(
                               place_order(st, symbol, "SELL", position.quantity,
                                           current_price, 0, 0).st,
                               snapshot, i + 1, current_prices)
                      ELSE IF position.take_profit # 0 /\ current_price >= position.take_profit
                      THEN CheckStopsFrom(
                               place_order(st, symbol, "SELL", position.quantity,
                                           current_price, 0, 0).st,
                               snapshot, i + 1, current_prices)
                      ELSE CheckStopsFrom(st, snapshot, i + 1, current_prices)

check_stop_loss_take_profit(st, current_prices) ==
    CheckStopsFrom(st, st.positions, 1, current_prices)

\* close_all_positions, from entry i of the snapshot list(self.positions.keys()) on
RECURSIVE CloseAllFrom(_, _, _, _)
CloseAllFrom(st, snapshot, i, current_prices) ==
    IF i > Len(snapshot) THEN st
    ELSE LET symbol == snapshot[i].symbol
         IN  IF symbol \in DOMAIN current_prices
             THEN CloseAllFrom(
                      place_order(st, symbol, "SELL",
                                  DictGet(st.positions, symbol).quantity,
                                  current_prices[symbol], 0, 0).st,
                      snapshot, i + 1, current_prices)
             ELSE CloseAllFrom(st, snapshot, i + 1, current_prices)

\* a close of the first open position only
close_all_positions_first(st, current_prices) ==
    CloseAllFrom(st, IF st.positions = <<>> THEN <<>> ELSE <<Head(st.positions)>>,
                 1, current_prices)

close_all_positions(st, current_prices) ==
    CloseAllFrom(st, st.positions, 1, current_prices)

----------------------------------------------------------------------------
(* The calls *)

\* current_prices: symbol -> price for some of the symbols
PriceMaps == UNION {[S -> SellPrices] : S \in SUBSET Symbols}

NoPrices == [s \in {} |-> 0]

\* no thread is inside place_order
NoThreads == <<>>

\* no backtest is running
NoBacktest == [pc |-> "none"]

Call(op, symbol, transaction_type, quantity, price, stop_loss, take_profit, ret, message, current_prices) ==
    [op |-> op, symbol |-> symbol, transaction_type |-> transaction_type,
     quantity |-> quantity, price |-> price, stop_loss |-> stop_loss,
     take_profit |-> take_profit, ret |-> ret, message |-> message,
     current_prices |-> current_prices]

\* the order log may still grow
WithinOrders(st) == st.orders = orders \/ Len(st.orders) <= MaxOrders

Install(st) ==
    /\ positions' = st.positions
    /\ closed_positions' = st.closed_positions
    /\ orders' = st.orders
    /\ capital' = st.capital
    /\ daily_pnl' = st.daily_pnl
    /\ open_positions' = st.open_positions
    /\ max_open_positions' = st.max_open_positions
    /\ UNCHANGED <<trading_mode, broker, threads, bt>>

\* OrderManager(risk_manager=RiskManager(capital=100000)), paper mode
Init ==
    /\ positions = <<>>
    /\ closed_positions = <<>>
    /\ orders = <<>>
    /\ capital = CAPITAL
    /\ daily_pnl = 0
    /\ open_positions = 0
    /\ max_open_positions \in {1, MaxOpenCfg}
    /\ last = Call("init", "", "", 0, 0, 0, 0, NULL, "", NoPrices)
    /\ trading_mode = "paper"
    /\ broker = "none"
    /\ threads = NoThreads
    /\ bt = NoBacktest

\* order_manager.place_order(symbol, "BUY", quantity, price, stop_loss, take_profit)
Buy ==
    \E symbol \in Symbols, quantity \in Quantities, price \in Prices,
       bracket \in Brackets :
        LET stop_loss == bracket[1]
            take_profit == bracket[2]
            r == place_order(State, symbol, "BUY", quantity, price, stop_loss, take_profit)
        IN  /\ WithinOrders(r.st)
            /\ Install(r.st)
            /\ last' = Call("place_order", symbol, "BUY", quantity, price,
                            stop_loss, take_profit, r.ret, r.message, NoPrices)

\* order_manager.place_order(symbol, "SELL", quantity, price)
Sell ==
    \E symbol \in Symbols, quantity \in SellQuantities, price \in SellPrices :
        LET r == place_order(State, symbol, "SELL", quantity, price, 0, 0)
        IN  /\ WithinOrders(r.st)
            /\ Install(r.st)
            /\ last' = Call("place_order", symbol, "SELL", quantity, price,
                            0, 0, r.ret, r.message, NoPrices)

\* the Buy branch of paper_trading_session for one symbol: the stop from
\* calculate_stop_loss, the quantity from calculate_position_size with the
\* default risk percentage, the order only when the quantity is positive
SessionBuy ==
    \E symbol \in Symbols, current_price \in SessionPrices :
        LET stop_loss == calculate_stop_loss(current_price, DEFAULT_STOP_PCT)
            quantity == calculate_position_size(State, current_price, stop_loss,
                                                MAX_RISK_PER_TRADE)
            take_profit == calculate_take_profit(current_price, stop_loss,
                                                 DEFAULT_REWARD_RATIO)
            r == place_order(State, symbol, "BUY", quantity, current_price,
                             stop_loss, take_profit)
        IN  /\ quantity > 0
            /\ WithinOrders(r.st)
            /\ Install(r.st)
            /\ last' = Call("session_buy", symbol, "BUY", quantity, current_price,
                            stop_loss, take_profit, r.ret, r.message, NoPrices)

\* order_manager.check_stop_loss_take_profit(current_prices)
CheckStopLossTakeProfit ==
    \E current_prices \in PriceMaps :
        /\ Install(check_stop_loss_take_profit(State, current_prices))
        /\ last' = Call("check_stop_loss_take_profit", "", "", 0, 0, 0, 0,
                        NULL, "", current_prices)

\* order_manager.close_all_positions(current_prices)
CloseAllPositions ==
    \E current_prices \in PriceMaps :
        /\ Install(close_all_positions(State, current_prices))
        /\ last' = Call("close_all_positions", "", "", 0, 0, 0, 0,
                        NULL, "", current_prices)

Next ==
    \/ Buy
    \/ Sell
    \/ SessionBuy
    \/ CheckStopLossTakeProfit
    \/ CloseAllPositions

Spec == Init /\ [][Next]_vars

----------------------------------------------------------------------------
(* Properties of the ledger *)

\* the ledger and the RiskState, without the record of the call
ledger == <<positions, closed_positions, orders, capital, daily_pnl, open_positions, max_open_positions>>

\* the step is a Buy through place_order (called directly or by the session)
IsBuy(call) ==
    /\ call.op \in {"place_order", "session_buy"}
    /\ call.transaction_type = "BUY"

\* the step is a Sell through a direct call of place_order
IsSell(call) ==
    /\ call.op = "place_order"
    /\ call.transaction_type = "SELL"

\* the order record a call appends
OrderOf(call) ==
    OrderRecord(call.ret, call.symbol, call.transaction_type, call.quantity, call.price)

\* C1: after any sequence of place_order, check_stop_loss_take_profit and
\* close_all_positions calls, the open map holds at most one Position per
\* symbol, and every Position in it is Open.
C1_OnePositionPerSymbol ==
    /\ \A i, j \in 1..Len(positions) :
           positions[i].symbol = positions[j].symbol => i = j
    /\ \A i \in 1..Len(positions) : positions[i].status = "OPEN"

\* two Buys for one symbol were filled in a row, and the symbol is open
C1_Witness ==
    /\ Len(orders) = 2
    /\ orders[1].transaction_type = "BUY"
    /\ orders[2].transaction_type = "BUY"
    /\ orders[1].symbol = orders[2].symbol
    /\ DictHas(positions, orders[1].symbol)

\* C2: a Buy placed while a Position is already Open for the symbol returns
\* null and leaves the Position, the gate's open-position counter and the
\* order log as they were.
C2_BuyOnOpenSymbolIsNoOp ==
    [][(IsBuy(last') /\ DictHas(positions, last'.symbol))
         => /\ last'.ret = NULL
            /\ positions' = positions
            /\ open_positions' = open_positions
            /\ orders' = orders]_vars

\* C3: when validate_order rejects a Buy, place_order returns null and the
\* open map, the closed log, the order log and the RiskState are unchanged.
C3_RejectedBuyMutatesNothing ==
    [][(IsBuy(last') /\ ~validate_order(State, last'.symbol, last'.quantity, last'.price).ok)
         => /\ last'.ret = NULL
            /\ UNCHANGED ledger]_vars

\* a Buy came back null from a state the gate rejects it in, with orders on
\* the log already
C3_Witness ==
    /\ IsBuy(last)
    /\ last.ret = NULL
    /\ ~validate_order(State, last.symbol, last.quantity, last.price).ok
    /\ Len(orders) > 0

\* C4: a Buy the gate approves for a symbol with no Open Position adds
\* exactly one Open Position for the symbol, with the requested quantity,
\* entry price, stop-loss and take-profit, raises the gate's open-position
\* counter by exactly 1, appends exactly one order record and returns that
\* record's non-null id.
C4_ApprovedBuyOpensOnePosition ==
    [][(/\ IsBuy(last')
        /\ validate_order(State, last'.symbol, last'.quantity, last'.price).ok
        /\ ~DictHas(positions, last'.symbol))
         => /\ last'.ret # NULL
            /\ Len(positions') = Len(positions) + 1
            /\ SubSeq(positions', 1, Len(positions)) = positions
            /\ LET opened == positions'[Len(positions')]
               IN  /\ opened.symbol = last'.symbol
                   /\ opened.quantity = last'.quantity
                   /\ opened.entry_price = last'.price
                   /\ opened.stop_loss = last'.stop_loss
                   /\ opened.take_profit = last'.take_profit
                   /\ opened.status = "OPEN"
            /\ open_positions' = open_positions + 1
            /\ orders' = Append(orders, OrderOf(last'))
            /\ UNCHANGED <<closed_positions, capital, daily_pnl>>]_vars

\* the second of two filled Buys opened a second symbol
C4_Witness ==
    /\ IsBuy(last)
    /\ Len(orders) = 2
    /\ orders[1].transaction_type = "BUY"
    /\ orders[2] = OrderOf(last)
    /\ orders[1].symbol # orders[2].symbol
    /\ Len(positions) = 2
    /\ open_positions = 2

\* C5: a Sell for a symbol with no Open Position changes neither the open
\* map, the closed log, the RiskState nor the order log.
C5_SellWithoutPositionIsNoOp ==
    [][(IsSell(last') /\ ~DictHas(positions, last'.symbol)) => UNCHANGED ledger]_vars

\* C6: a Sell at price for a symbol with an Open Position closes it with
\* exit price = price and realized P&L = quantity x (price - entry_price),
\* takes it out of the open map and puts it at the end of the closed log,
\* adds that P&L to the gate's daily P&L, lowers the open-position counter
\* by 1 and appends one order record.
C6_SellClosesPosition ==
    [][(IsSell(last') /\ DictHas(positions, last'.symbol))
         => LET position == DictGet(positions, last'.symbol)
                pnl == position.quantity * (last'.price - position.entry_price)
                others(p) == p.symbol # last'.symbol
            IN  /\ closed_positions' =
                       Append(closed_positions,
                              [position EXCEPT !.exit_price = last'.price,
                                               !.status = "CLOSED",
                                               !.pnl = pnl])
                /\ positions' = SelectSeq(positions, others)
                /\ daily_pnl' = daily_pnl + pnl
                /\ open_positions' = open_positions - 1
                /\ orders' = Append(orders, OrderOf(last'))
                /\ last'.ret # NULL
                /\ UNCHANGED <<capital, max_open_positions>>]_vars

\* a Sell closed a position at a loss while the other symbol stayed open
C6_Witness ==
    /\ IsSell(last)
    /\ Len(closed_positions) = 1
    /\ closed_positions[1].symbol = last.symbol
    /\ closed_positions[1].exit_price = last.price
    /\ closed_positions[1].pnl < 0
    /\ daily_pnl = closed_positions[1].pnl
    /\ orders[Len(orders)] = OrderOf(last)

\* C7: from an empty ledger, a filled Buy followed by a Sell of the same
\* symbol leaves the open map empty, the closed log with exactly one entry
\* whose realized P&L is quantity x (exit - entry), and the gate's
\* open-position counter back at 0.
C7_RoundTrip ==
    (/\ Len(orders) = 2
     /\ orders[1].transaction_type = "BUY"
     /\ orders[2].transaction_type = "SELL"
     /\ orders[1].symbol = orders[2].symbol)
    => /\ positions = <<>>
       /\ Len(closed_positions) = 1
       /\ closed_positions[1].symbol = orders[1].symbol
       /\ closed_positions[1].pnl =
              orders[1].quantity * (orders[2].price - orders[1].price)
       /\ open_positions = 0

\* a Buy and a Sell of one symbol, at different prices, are the whole log
C7_Witness ==
    /\ Len(orders) = 2
    /\ orders[1].transaction_type = "BUY"
    /\ orders[2].transaction_type = "SELL"
    /\ orders[1].symbol = orders[2].symbol
    /\ orders[1].price # orders[2].price
    /\ Len(closed_positions) = 1

----------------------------------------------------------------------------
(* Properties of the risk gate as place_order uses it *)

\* C8: a Buy sized by calculate_position_size with the default risk
\* percentage against a stop from calculate_stop_loss(entry, 2) (entry 2500,
\* stop 2450, capital 100000) is accepted when the gate has free slots and no
\* daily loss: it returns an order id and the symbol is then open.
C8_SizedBuyAccepted ==
    [][(last'.op = "session_buy" /\ can_open_position(State))
         => /\ last'.ret # NULL
            /\ DictHas(positions', last'.symbol)]_vars

\* the check of validate_order that fails first, in the order open-position
\* limit, daily-loss limit, max order value, min order value
FirstFailingCheck(st, quantity, price) ==
    IF st.open_positions >= st.max_open_positions THEN "open_position_limit"
    ELSE IF st.daily_pnl * 100 <= -MAX_DAILY_LOSS * st.capital THEN "daily_loss_limit"
    ELSE IF quantity * price * 100 > st.capital * MAX_ORDER_PCT THEN "max_order_value"
    ELSE IF quantity * price < MIN_ORDER_VALUE THEN "min_order_value"
    ELSE "none"

\* the reason validate_order gives for each check
ReasonOfCheck(check) ==
    CASE check = "open_position_limit" -> MSG_RISK_LIMITS
      [] check = "daily_loss_limit" -> MSG_RISK_LIMITS
      [] check = "max_order_value" -> MSG_EXCEEDS_LIMIT
      [] check = "min_order_value" -> MSG_TOO_SMALL
      [] OTHER -> MSG_VALIDATED

\* C9: every Buy gets the one reason of the first check that fails, the
\* checks taken in the order open-position limit, daily-loss limit, max
\* order value, min order value; a Buy that finds the open-position count at
\* the maximum and exceeds the max order value gets the reason of the
\* open-position limit, not the one of the order value.
C9_FirstFailingCheckDecides ==
    [][IsBuy(last')
         => /\ last'.message =
                   ReasonOfCheck(FirstFailingCheck(State, last'.quantity, last'.price))
            /\ (/\ open_positions >= max_open_positions
                /\ ExceedsMaxOrderValue(State, last'.quantity, last'.price))
                 => /\ last'.ret = NULL
                    /\ last'.message = MSG_RISK_LIMITS
                    /\ last'.message # MSG_EXCEEDS_LIMIT]_vars

\* a Buy over the max order value was rejected with the count at the maximum
C9_Witness ==
    /\ IsBuy(last)
    /\ last.ret = NULL
    /\ open_positions >= max_open_positions
    /\ ExceedsMaxOrderValue(State, last.quantity, last.price)
    /\ last.message = MSG_RISK_LIMITS

\* the states of the gate a rejection is compared with: every open-position
\* count up to the limit, with no daily P&L and with the daily loss at its limit
GateStates ==
    {[State EXCEPT !.open_positions = n, !.daily_pnl = d] :
        n \in 0..max_open_positions,
        d \in {0, -((MAX_DAILY_LOSS * capital) \div 100)}}

\* C10: the reason of a rejection tells which of the four checks failed: no
\* order that fails on another check is given the same reason.
C10_ReasonTellsTheCheck ==
    (IsBuy(last) /\ last.ret = NULL)
    => \A st \in GateStates, quantity \in Quantities, price \in Prices :
           FirstFailingCheck(st, quantity, price)
               # FirstFailingCheck(State, last.quantity, last.price)
           => validate_order(st, last.symbol, quantity, price).message # last.message

----------------------------------------------------------------------------
(* SpecRisk: a RiskManager on its own, driven through its mutators and     *)
(* asked through its queries.  The OrderManager variables stay as          *)
(* constructed.                                                            *)

\* the open-position counter is raised up to this
MaxRiskCount == 3

\* daily_pnl stays within this many steps of PnlStep either side of 0
MaxRiskPnlSteps == 2

PnlStep == 2500

\* update_capital(new_capital)
Capitals == {-100000, 0, 50000, 100000}

\* update_daily_pnl(pnl)
PnlDeltas == {-PnlStep, PnlStep}

\* validate_order(symbol, quantity, price)
GateQuantities == {0, 10, 100}
GatePrices == {500}

\* calculate_position_size(entry_price, stop_loss_price, risk_percentage)
GateEntries == {500, 1000}
GateStops == {0, 500, 980}
RiskPercentages == {MAX_RISK_PER_TRADE, 29}

\* a / b rounded toward zero, b # 0
SignedDiv(a, b) == IF b > 0 THEN TruncDiv(a, b) ELSE -TruncDiv(a, -b)

\* validate_order raises when its call of can_open_position does
validate_order_raises(st) == can_open_position_raises(st)

\* get_risk_metrics raises on (daily_pnl / capital) * 100
get_risk_metrics_raises(st) == DailyPnlPercentageRaises(st)

\* get_risk_metrics; the percentage in hundredths of a percent
get_risk_metrics(st) ==
    [capital |-> st.capital,
     daily_pnl |-> st.daily_pnl,
     daily_pnl_percentage_x100 |-> SignedDiv(st.daily_pnl * 10000, st.capital),
     open_positions |-> st.open_positions,
     max_open_positions |-> st.max_open_positions,
     available_positions |-> st.max_open_positions - st.open_positions,
     max_risk_per_trade |-> MAX_RISK_PER_TRADE,
     max_daily_loss |-> MAX_DAILY_LOSS]

\* a call on the RiskManager: what it was given, what it returned, whether
\* it raised instead
RiskCall(op, args, ret, raised) ==
    [op |-> op, args |-> args, ret |-> ret, raised |-> raised]

\* the call raised ZeroDivisionError
Raised(op, args) == RiskCall(op, args, NULL, TRUE)

\* RiskManager(capital=100000); nothing else is in use
InitRisk ==
    /\ positions = <<>>
    /\ closed_positions = <<>>
    /\ orders = <<>>
    /\ capital = CAPITAL
    /\ daily_pnl = 0
    /\ open_positions = 0
    /\ max_open_positions \in {1, MaxOpenCfg}
    /\ last = RiskCall("init", <<>>, NULL, FALSE)
    /\ trading_mode = "paper"
    /\ broker = "none"
    /\ threads = NoThreads
    /\ bt = NoBacktest

\* what a call leaves in `last`
Answer(op, args, ret, raised) ==
    IF raised THEN Raised(op, args) ELSE RiskCall(op, args, ret, FALSE)

\* a query leaves the RiskManager as it was
Asked == UNCHANGED <<ledger, trading_mode, broker, threads, bt>>

UpdateCapital ==
    \E new_capital \in Capitals :
        /\ Install(update_capital(State, new_capital))
        /\ last' = Answer("update_capital", <<new_capital>>, NULL, FALSE)

UpdateDailyPnl ==
    \E pnl \in PnlDeltas :
        /\ Abs(daily_pnl + pnl) <= MaxRiskPnlSteps * PnlStep
        /\ Install(update_daily_pnl(State, pnl))
        /\ last' = Answer("update_daily_pnl", <<pnl>>, NULL, FALSE)

AddPosition ==
    /\ open_positions < MaxRiskCount
    /\ Install(add_position(State))
    /\ last' = Answer("add_position", <<>>, NULL, FALSE)

ClosePosition ==
    /\ Install(close_position(State))
    /\ last' = Answer("close_position", <<>>, NULL, FALSE)

ResetDailyPnl ==
    /\ Install(reset_daily_pnl(State))
    /\ last' = Answer("reset_daily_pnl", <<>>, NULL, FALSE)

\* a check that counts itself as an open position
CanOpenPositionCounting ==
    /\ open_positions < MaxRiskCount
    /\ Install(add_position(State))
    /\ last' = Answer("can_open_position", <<>>,
                      can_open_position(State), can_open_position_raises(State))

CanOpenPosition ==
    /\ Asked
    /\ last' = Answer("can_open_position", <<>>,
                      can_open_position(State), can_open_position_raises(State))

ValidateOrder ==
    \E quantity \in GateQuantities, price \in GatePrices :
        /\ Asked
        /\ last' = Answer("validate_order", <<"A", quantity, price>>,
                          validate_order(State, "A", quantity, price),
                          validate_order_raises(State))

CalculatePositionSize ==
    \E entry_price \in GateEntries, stop_loss_price \in GateStops,
       risk_percentage \in RiskPercentages :
        /\ Asked
        /\ last' = Answer("calculate_position_size",
                          <<entry_price, stop_loss_price, risk_percentage>>,
                          calculate_position_size(State, entry_price, stop_loss_price,
                                                  risk_percentage),
                          FALSE)

CalculateStopLoss ==
    \E entry_price \in GateEntries :
        /\ Asked
        /\ last' = Answer("calculate_stop_loss", <<entry_price>>,
                          calculate_stop_loss(entry_price, DEFAULT_STOP_PCT), FALSE)

CalculateTakeProfit ==
    \E entry_price \in GateEntries, stop_loss_price \in GateStops :
        /\ Asked
        /\ last' = Answer("calculate_take_profit", <<entry_price, stop_loss_price>>,
                          calculate_take_profit(entry_price, stop_loss_price,
                                                DEFAULT_REWARD_RATIO),
                          FALSE)

GetRiskMetrics ==
    /\ Asked
    /\ last' = IF get_risk_metrics_raises(State)
               THEN Raised("get_risk_metrics", <<>>)
               ELSE RiskCall("get_risk_metrics", <<>>, get_risk_metrics(State), FALSE)

NextRisk ==
    \/ UpdateCapital
    \/ UpdateDailyPnl
    \/ AddPosition
    \/ ClosePosition
    \/ ResetDailyPnl
    \/ CanOpenPosition
    \/ ValidateOrder
    \/ CalculatePositionSize
    \/ CalculateStopLoss
    \/ CalculateTakeProfit
    \/ GetRiskMetrics

SpecRisk == InitRisk /\ [][NextRisk]_vars

\* C11: can_open_position returns false exactly when the open-position
\* count is at least max_open_positions or the daily P&L as a percentage of
\* capital is at most -max_daily_loss (both bounds inclusive), and true
\* otherwise.
C11_CanOpenPositionExact ==
    (last.op = "can_open_position" /\ ~last.raised)
    => LET count_reached == open_positions >= max_open_positions
           \* daily_pnl / capital * 100 <= -MAX_DAILY_LOSS, capital # 0
           loss_reached ==
               \/ capital > 0 /\ daily_pnl * 100 <= -MAX_DAILY_LOSS * capital
               \/ capital < 0 /\ daily_pnl * 100 >= -MAX_DAILY_LOSS * capital
       IN  /\ last.ret \in BOOLEAN
           /\ last.ret = FALSE <=> (count_reached \/ loss_reached)

\* false at a loss of exactly max_daily_loss percent, with room for more
\* positions
C11_Witness ==
    /\ last.op = "can_open_position"
    /\ ~last.raised
    /\ last.ret = FALSE
    /\ open_positions < max_open_positions
    /\ capital > 0
    /\ daily_pnl * 100 = -MAX_DAILY_LOSS * capital

\* C12: no operation of the risk gate raises, in any RiskState reachable
\* through its own mutators.
C12_NoGateOperationRaises == ~last.raised

----------------------------------------------------------------------------
(* SpecStops: the paper ledger with bracketed positions, under             *)
(* check_stop_loss_take_profit and close_all_positions with prices below,  *)
(* inside and above the brackets.                                          *)

\* place_order is called while the order log stays within this many records
MaxBracketOrders == 2

BracketQuantities == {10}
BracketEntryPrices == {750}

\* <<stop_loss, take_profit>>, 0 for none; <<1000, 500>> has the stop above
\* the target
BracketChoices == {<<0, 0>>, <<500, 1000>>, <<1000, 500>>}

BracketPrices == {500, 750, 1000}

BracketPriceMaps == UNION {[S -> BracketPrices] : S \in SUBSET Symbols}

\* order_manager.place_order(symbol, "BUY", quantity, price, stop_loss, take_profit)
BracketBuy ==
    \E symbol \in Symbols, quantity \in BracketQuantities,
       price \in BracketEntryPrices, bracket \in BracketChoices :
        LET r == place_order(State, symbol, "BUY", quantity, price,
                             bracket[1], bracket[2])
        IN  /\ Len(orders) < MaxBracketOrders
            /\ Install(r.st)
            /\ last' = Call("place_order", symbol, "BUY", quantity, price,
                            bracket[1], bracket[2], r.ret, r.message, NoPrices)

\* order_manager.check_stop_loss_take_profit(current_prices)
BracketCheck ==
    \E current_prices \in BracketPriceMaps :
        /\ Install(check_stop_loss_take_profit(State, current_prices))
        /\ last' = Call("check_stop_loss_take_profit", "", "", 0, 0, 0, 0,
                        NULL, "", current_prices)

\* order_manager.close_all_positions(current_prices)
BracketCloseAll ==
    \E current_prices \in BracketPriceMaps :
        /\ Install(close_all_positions(State, current_prices))
        /\ last' = Call("close_all_positions", "", "", 0, 0, 0, 0,
                        NULL, "", current_prices)

NextStops ==
    \/ BracketBuy
    \/ BracketCheck
    \/ BracketCloseAll

SpecStops == Init /\ [][NextStops]_vars

\* the symbol has a supplied price
Priced(position, current_prices) == position.symbol \in DOMAIN current_prices

\* the supplied price is at or below the position's stop-loss
StopLossHit(position, current_prices) ==
    /\ Priced(position, current_prices)
    /\ position.stop_loss # NULL
    /\ current_prices[position.symbol] <= position.stop_loss

\* the supplied price is at or above the position's take-profit
TakeProfitHit(position, current_prices) ==
    /\ Priced(position, current_prices)
    /\ position.take_profit # NULL
    /\ current_prices[position.symbol] >= position.take_profit

\* the positions of d, each sold at its supplied price
SoldAt(d, current_prices) ==
    [i \in 1..Len(d) |->
        [d[i] EXCEPT !.status = "CLOSED",
                     !.exit_price = current_prices[d[i].symbol],
                     !.pnl = (current_prices[d[i].symbol] - d[i].entry_price)
                             * d[i].quantity]]

\* one Sell order for each position of d, for its whole quantity at its
\* supplied price
SellOrdersFor(d, current_prices, first_id) ==
    [i \in 1..Len(d) |->
        OrderRecord(first_id + i - 1, d[i].symbol, "SELL", d[i].quantity,
                    current_prices[d[i].symbol])]

\* C13: check_stop_loss_take_profit(prices) sells, at its supplied price,
\* every open position whose price is at or below its stop-loss or else at
\* or above its take-profit, and leaves every other open position unchanged;
\* a position for which both tests hold is sold once.
C13_BracketsSellOnce ==
    [][last'.op = "check_stop_loss_take_profit"
       => LET prices == last'.current_prices
              Hit(p) == StopLossHit(p, prices) \/ TakeProfitHit(p, prices)
              Kept(p) == ~Hit(p)
              hits == SelectSeq(positions, Hit)
          IN  /\ positions' = SelectSeq(positions, Kept)
              /\ closed_positions' = closed_positions \o SoldAt(hits, prices)
              /\ orders' = orders \o SellOrdersFor(hits, prices, Len(orders) + 1)
      ]_vars

\* one call sold a position whose price met both tests and left open a
\* position whose price is strictly inside its bracket
C13_Witness ==
    /\ last.op = "check_stop_loss_take_profit"
    /\ Len(orders) = 3
    /\ orders[3].transaction_type = "SELL"
    /\ Len(closed_positions) = 1
    /\ StopLossHit(closed_positions[1], last.current_prices)
    /\ TakeProfitHit(closed_positions[1], last.current_prices)
    /\ closed_positions[1].exit_price = last.current_prices[closed_positions[1].symbol]
    /\ Len(positions) = 1
    /\ Priced(positions[1], last.current_prices)
    /\ positions[1].stop_loss < last.current_prices[positions[1].symbol]
    /\ last.current_prices[positions[1].symbol] < positions[1].take_profit

\* C14: close_all_positions(prices) closes, at its supplied price, every
\* open position whose symbol has one and leaves the others open and
\* unchanged: afterwards the open map holds exactly the symbols that were
\* open and are absent from prices.
C14_CloseAllClosesThePriced ==
    [][last'.op = "close_all_positions"
       => LET prices == last'.current_prices
              HasPrice(p) == Priced(p, prices)
              HasNoPrice(p) == ~Priced(p, prices)
              priced == SelectSeq(positions, HasPrice)
          IN  /\ positions' = SelectSeq(positions, HasNoPrice)
              /\ closed_positions' = closed_positions \o SoldAt(priced, prices)
              /\ {positions'[i].symbol : i \in 1..Len(positions')}
                   = {positions[i].symbol : i \in 1..Len(positions)} \ DOMAIN prices
      ]_vars

\* one call closed the priced position and left the unpriced one
C14_Witness ==
    /\ last.op = "close_all_positions"
    /\ Len(orders) = 3
    /\ orders[3].transaction_type = "SELL"
    /\ Len(closed_positions) = 1
    /\ Priced(closed_positions[1], last.current_prices)
    /\ closed_positions[1].exit_price = last.current_prices[closed_positions[1].symbol]
    /\ Len(positions) = 1
    /\ ~Priced(positions[1], last.current_prices)

----------------------------------------------------------------------------
(* SpecLive: the ledger with config.TRADING_MODE = "live".  The broker is  *)
(* ZerodhaBroker or None; a call of broker.place_order returns an order id *)
(* or raises.                                                              *)

\* place_order is called while the order log stays within this many records
MaxLiveOrders == 3

LiveQuantities == {10, 100}
LivePrices == {500}

\* what broker.place_order does when it is called
BrokerReplies == {"filled", "raises"}

\* the id the broker gives an order it took: a fresh one
BrokerOrderId(st) == Len(st.orders) + 1

\* how the call of the broker went: "no_broker" when self.broker is None
LiveFill(broker_, reply) == IF broker_ = "none" THEN "no_broker" ELSE reply

\* _place_live_order: the order id, or None without a broker or when the
\* broker raises; nothing else is assigned
place_live_order(st, broker_, reply) ==
    IF broker_ = "none" THEN NULL
    ELSE IF reply = "raises" THEN NULL
    ELSE BrokerOrderId(st)

\* a live order booked into the ledger like a paper one whatever the broker said
place_order_live_booked(st, broker_, reply, symbol, transaction_type, quantity, price) ==
    LET v == IF transaction_type = "BUY"
             THEN validate_order(st, symbol, quantity, price)
             ELSE [ok |-> TRUE, message |-> ""]
    IN  IF ~v.ok
        THEN Reject(st, symbol, transaction_type, quantity, price, v.message)
        ELSE LET order_id == place_live_order(st, broker_, reply)
                 booked == place_paper_order(st, symbol, transaction_type,
                                             quantity, price, 0, 0)
             IN  Outcome([booked EXCEPT !.orders =
                             Append(@, OrderRecord(order_id, symbol,
                                                   transaction_type, quantity, price))],
                         order_id, v.message)

\* place_order with config.TRADING_MODE = "live" and a risk manager attached
place_order_live(st, broker_, reply, symbol, transaction_type, quantity, price) ==
    LET v == IF transaction_type = "BUY"
             THEN validate_order(st, symbol, quantity, price)
             ELSE [ok |-> TRUE, message |-> ""]
    IN  IF ~v.ok
        THEN Reject(st, symbol, transaction_type, quantity, price, v.message)
        ELSE LET order_id == place_live_order(st, broker_, reply)
             IN  Outcome([st EXCEPT !.orders =
                             Append(@, OrderRecord(order_id, symbol,
                                                   transaction_type, quantity, price))],
                         order_id, v.message)

\* a call of place_order in live mode: `fill` tells how the broker call
\* went, "not_called" when the order was rejected before it
LiveCall(symbol, transaction_type, quantity, price, ret, message, fill) ==
    [op |-> "place_order", symbol |-> symbol, transaction_type |-> transaction_type,
     quantity |-> quantity, price |-> price, ret |-> ret, message |-> message,
     fill |-> fill]

\* what `last` tells of the broker call
FillOf(st, r, broker_, reply) ==
    IF r.st.orders = st.orders THEN "not_called" ELSE LiveFill(broker_, reply)

\* OrderManager(broker=broker, risk_manager=RiskManager(capital=100000)), live mode
InitLive ==
    /\ positions = <<>>
    /\ closed_positions = <<>>
    /\ orders = <<>>
    /\ capital = CAPITAL
    /\ daily_pnl = 0
    /\ open_positions = 0
    /\ max_open_positions = MaxOpenCfg
    /\ last = LiveCall("", "", 0, 0, NULL, "", "init")
    /\ trading_mode = "live"
    /\ broker \in {"none", "kite"}
    /\ threads = NoThreads
    /\ bt = NoBacktest

\* order_manager.place_order(symbol, "BUY", quantity, price)
LiveBuy ==
    \E symbol \in Symbols, quantity \in LiveQuantities, price \in LivePrices,
       reply \in BrokerReplies :
        LET r == place_order_live(State, broker, reply, symbol, "BUY", quantity, price)
        IN  /\ Len(orders) < MaxLiveOrders
            /\ Install(r.st)
            /\ last' = LiveCall(symbol, "BUY", quantity, price, r.ret, r.message,
                                FillOf(State, r, broker, reply))

\* order_manager.place_order(symbol, "SELL", quantity, price)
LiveSell ==
    \E symbol \in Symbols, quantity \in SellQuantities, price \in LivePrices,
       reply \in BrokerReplies :
        LET r == place_order_live(State, broker, reply, symbol, "SELL", quantity, price)
        IN  /\ Len(orders) < MaxLiveOrders
            /\ Install(r.st)
            /\ last' = LiveCall(symbol, "SELL", quantity, price, r.ret, r.message,
                                FillOf(State, r, broker, reply))

NextLive ==
    \/ LiveBuy
    \/ LiveSell

SpecLive == InitLive /\ [][NextLive]_vars

\* C15: in live mode a filled Buy opens a Position and a filled Sell closes
\* it: the live path leaves the open map, the closed log and the RiskState
\* as the paper path would.
C15_LiveLedgerAsPaper ==
    [][(last'.fill = "filled" /\ last'.ret # NULL)
       => LET paper == place_order(State, last'.symbol, last'.transaction_type,
                                   last'.quantity, last'.price, 0, 0).st
          IN  /\ positions' = paper.positions
              /\ closed_positions' = paper.closed_positions
              /\ open_positions' = paper.open_positions
              /\ daily_pnl' = paper.daily_pnl
              /\ capital' = paper.capital
      ]_vars

\* C16: when the broker raises, or there is no broker, during a live Buy or
\* Sell, place_order returns null, no Position is created or closed, and
\* the counter and the daily P&L are unchanged.
C16_FailedLiveFillBooksNothing ==
    [][last'.fill \in {"raises", "no_broker"}
       => /\ last'.ret = NULL
          /\ positions' = positions
          /\ closed_positions' = closed_positions
          /\ open_positions' = open_positions
          /\ daily_pnl' = daily_pnl
      ]_vars

\* a live Buy that passed validation and whose broker call raised
C16_Witness ==
    /\ trading_mode = "live"
    /\ broker = "kite"
    /\ last.fill = "raises"
    /\ last.transaction_type = "BUY"
    /\ last.ret = NULL
    /\ last.message = MSG_VALIDATED
    /\ positions = <<>>
    /\ open_positions = 0

----------------------------------------------------------------------------
(* SpecThreads: two threads call place_order(symbol, "BUY", ...) on one    *)
(* OrderManager in paper mode.  The code takes no lock, so a thread may be *)
(* preempted between any two of its steps: the call of validate_order,     *)
(* the assignment self.positions[symbol] = position, the read and the      *)
(* write of `self.open_positions += 1`, and self.orders.append(...).       *)

\* each thread makes at most this many calls
MaxThreadCalls == 2

Threads == {1, 2}

ThreadSymbols == {"A", "B", "C"}

\* the quantity and price of every Buy here
ThreadOrder == [quantity |-> 10, price |-> 500]

\* a fresh paper order id for the n-th call (from 0) of thread t
ThreadOrderId(t, n) == n * Cardinality(Threads) + t

\* a thread outside place_order, n calls made; `raced` tells whether one of
\* its calls was validated while another thread stood between its own
\* validation and its write of the counter
Idle(n, ret, raced) ==
    [pc |-> "idle", symbol |-> "", order_id |-> NULL, loaded |-> 0,
     ret |-> ret, calls |-> n, raced |-> raced]

\* the thread has been validated and has not yet written the counter
InFlight(thread) == thread.pc \in {"insert", "load", "store"}

\* OrderManager(risk_manager=RiskManager(capital=100000)), paper mode, and
\* two threads about to use it
InitThreads ==
    /\ positions = <<>>
    /\ closed_positions = <<>>
    /\ orders = <<>>
    /\ capital = CAPITAL
    /\ daily_pnl = 0
    /\ open_positions = 0
    /\ max_open_positions \in {1, MaxOpenCfg}
    /\ last = Call("init", "", "", 0, 0, 0, 0, NULL, "", NoPrices)
    /\ trading_mode = "paper"
    /\ broker = "none"
    /\ threads = [t \in Threads |-> Idle(0, NULL, FALSE)]
    /\ bt = NoBacktest

\* thread t enters place_order(symbol, "BUY", quantity, price)
ThreadCall(t) ==
    \E symbol \in ThreadSymbols :
        /\ threads[t].pc = "idle"
        /\ threads[t].calls < MaxThreadCalls
        /\ threads' = [threads EXCEPT ![t].pc = "validate", ![t].symbol = symbol,
                                      ![t].ret = NULL]
        /\ UNCHANGED <<ledger, last, trading_mode, broker, bt>>

\* is_valid, message = self.risk_manager.validate_order(...); return None
\* when it says no
ThreadValidate(t) ==
    LET v == validate_order(State, threads[t].symbol, ThreadOrder.quantity,
                            ThreadOrder.price)
        raced == \E u \in Threads \ {t} : InFlight(threads[u])
    IN  /\ threads[t].pc = "validate"
        /\ threads' = IF v.ok
                      THEN [threads EXCEPT ![t].pc = "insert",
                                           ![t].raced = @ \/ raced]
                      ELSE [threads EXCEPT
                               ![t] = Idle(threads[t].calls + 1, NULL, threads[t].raced)]
        /\ UNCHANGED <<ledger, last, trading_mode, broker, bt>>

\* _place_paper_order: self.positions[symbol] = position
ThreadInsert(t) ==
    LET order_id == ThreadOrderId(t, threads[t].calls)
    IN  /\ threads[t].pc = "insert"
        /\ positions' = DictSet(positions, threads[t].symbol,
                                Position(threads[t].symbol, ThreadOrder.quantity,
                                         ThreadOrder.price, 0, 0, order_id))
        /\ threads' = [threads EXCEPT ![t].pc = "load", ![t].order_id = order_id]
        /\ UNCHANGED <<closed_positions, orders, capital, daily_pnl, open_positions,
                       max_open_positions, last, trading_mode, broker, bt>>

\* add_position: the read of self.open_positions
ThreadLoad(t) ==
    /\ threads[t].pc = "load"
    /\ threads' = [threads EXCEPT ![t].pc = "store", ![t].loaded = open_positions]
    /\ UNCHANGED <<ledger, last, trading_mode, broker, bt>>

\* add_position: the write of self.open_positions
ThreadStore(t) ==
    /\ threads[t].pc = "store"
    /\ open_positions' = threads[t].loaded + 1
    /\ threads' = [threads EXCEPT ![t].pc = "track"]
    /\ UNCHANGED <<positions, closed_positions, orders, capital, daily_pnl,
                   max_open_positions, last, trading_mode, broker, bt>>

\* self.orders.append({...}); return order_id
ThreadTrack(t) ==
    /\ threads[t].pc = "track"
    /\ orders' = Append(orders, OrderRecord(threads[t].order_id, threads[t].symbol,
                                            "BUY", ThreadOrder.quantity,
                                            ThreadOrder.price))
    /\ threads' = [threads EXCEPT
                      ![t] = Idle(threads[t].calls + 1, threads[t].order_id,
                                  threads[t].raced)]
    /\ UNCHANGED <<positions, closed_positions, capital, daily_pnl, open_positions,
                   max_open_positions, last, trading_mode, broker, bt>>

NextThreads ==
    \E t \in Threads :
        \/ ThreadCall(t)
        \/ ThreadValidate(t)
        \/ ThreadInsert(t)
        \/ ThreadLoad(t)
        \/ ThreadStore(t)
        \/ ThreadTrack(t)

SpecThreads == InitThreads /\ [][NextThreads]_vars

\* C17: place_order reads, checks and then writes without a lock: two Buy
\* calls can both be approved at a count of max_open_positions - 1 and leave
\* more than max_open_positions positions open.  The open map holds more
\* positions than the maximum only when a call was validated while another
\* stood between its validation and its write of the counter (the witness
\* shows that it does happen).
C17_OverLimitOnlyByInterleaving ==
    Len(positions) > max_open_positions
    => \E t \in Threads : threads[t].raced

\* both threads have returned an order id and the open map holds more
\* positions than the maximum
C17_Witness ==
    /\ Len(positions) = max_open_positions + 1
    /\ \A t \in Threads : threads[t].pc = "idle" /\ threads[t].ret # NULL
    /\ \E t \in Threads : threads[t].raced

----------------------------------------------------------------------------
(* SpecBacktest: Backtester.run over a frame of closes and signals, one    *)
(* bar of the loop at a time, then the close at the end and the metrics.   *)
(*                                                                         *)
(* The floats of run (capital, position, position_value, the trade values  *)
(* and the portfolio values) are held exactly, as integer multiples of     *)
(* 1/SCALE: every division below leaves no remainder for the frames drawn  *)
(* here (BtExact).  The signals are those of strategy.generate_signals.    *)

\* the frame has at most this many bars
MaxBars == 3

INITIAL_CAPITAL == 100000

\* one rupee, and one share
SCALE == 160

\* 0.95: capital * 0.95 is capital * CASH_USED.num / CASH_USED.den
CASH_USED == [num |-> 19, den |-> 20]

BarCloses == {100, 200}

\* df['signal']: 1 Buy, 0 Hold, -1 Sell
BarSignals == {-1, 0, 1}

\* run(df, commission): none, and one percent
Commissions == {[num |-> 0, den |-> 1], [num |-> 1, den |-> 100]}

\* x * r for a ratio r
Times(x, r) == (x * r.num) \div r.den

\* x * r leaves no remainder
TimesExact(x, r) == (x * r.num) % r.den = 0

\* the frames of n bars: a close and a signal for each
Frames(n) == [close : [1..n -> BarCloses], signal : [1..n -> BarSignals]]

\* the locals of run before the loop (lines 50-54); `i` is the next bar, from 1
BtStart(frame, commission) ==
    [pc |-> "loop", close |-> frame.close, signal |-> frame.signal,
     commission |-> commission, i |-> 1,
     capital |-> INITIAL_CAPITAL * SCALE, position |-> 0, position_value |-> 0,
     trades |-> <<>>, portfolio_values |-> <<>>, exact |-> TRUE, results |-> NULL]

\* portfolio_value = capital + (position * current_price)
PortfolioValue(b, current_price) == b.capital + b.position * current_price

\* portfolio_values.append(portfolio_value), on entering bar b.i
Sampled(b) ==
    [b EXCEPT !.portfolio_values = Append(@, PortfolioValue(b, b.close[b.i]))]

\* the sample taken with the capital and position of b2, after the trade
SampledAfter(b, b2) ==
    [b2 EXCEPT !.portfolio_values = Append(@, PortfolioValue(b2, b.close[b.i]))]

BuyTrade(date, price, quantity, value) ==
    [type |-> "BUY", date |-> date, price |-> price, quantity |-> quantity,
     value |-> value]

SellTrade(date, price, quantity, value, pnl) ==
    [type |-> "SELL", date |-> date, price |-> price, quantity |-> quantity,
     value |-> value, pnl |-> pnl]

\* the Buy branch (lines 65-78); the date is the bar's index from 0
ExecuteBuy(b) ==
    LET current_price == b.close[b.i]
        spend == Times(b.capital, CASH_USED)
        position == spend \div current_price
        position_value == position * current_price
        fee == Times(position_value, b.commission)
    IN  [b EXCEPT !.position = position,
                  !.position_value = position_value,
                  !.capital = b.capital - position_value - fee,
                  !.trades = Append(@, BuyTrade(b.i - 1, current_price, position,
                                                position_value)),
                  !.exact = /\ @
                            /\ TimesExact(b.capital, CASH_USED)
                            /\ spend % current_price = 0
                            /\ TimesExact(position_value, b.commission)]

\* a Sell whose recorded P&L is net of its commission
ExecuteSellNetOfFee(b) ==
    LET current_price == b.close[b.i]
        sell_value == b.position * current_price
        fee == Times(sell_value, b.commission)
    IN  [b EXCEPT !.capital = b.capital + sell_value - fee,
                  !.trades = Append(@, SellTrade(b.i - 1, current_price, b.position,
                                                 sell_value,
                                                 sell_value - b.position_value - fee)),
                  !.position = 0,
                  !.position_value = 0,
                  !.exact = @ /\ TimesExact(sell_value, b.commission)]

\* the Sell branch (lines 82-102)
ExecuteSell(b) ==
    LET current_price == b.close[b.i]
        sell_value == b.position * current_price
        fee == Times(sell_value, b.commission)
    IN  [b EXCEPT !.capital = b.capital + sell_value - fee,
                  !.trades = Append(@, SellTrade(b.i - 1, current_price, b.position,
                                                 sell_value,
                                                 sell_value - b.position_value)),
                  !.position = 0,
                  !.position_value = 0,
                  !.exact = @ /\ TimesExact(sell_value, b.commission)]

\* the Buy branch taken whatever is held
BuyBranchAnyPosition(b) == b.signal[b.i] = 1

\* signal == 1 and position == 0
BuyBranch(b) == b.signal[b.i] = 1 /\ b.position = 0

\* signal == -1 and position > 0
SellBranch(b) == b.signal[b.i] = -1 /\ b.position > 0

\* the next iteration
NextBar(b) == [b EXCEPT !.i = @ + 1]

\* the loop is at a bar
InLoop == bt.pc = "loop" /\ bt.i <= Len(bt.close)

\* only the locals of run change
BtOnly == UNCHANGED <<ledger, last, trading_mode, broker, threads>>

\* Backtester(strategy, initial_capital=100000).run(df, commission), up to the loop
InitBacktest ==
    /\ positions = <<>>
    /\ closed_positions = <<>>
    /\ orders = <<>>
    /\ capital = CAPITAL
    /\ daily_pnl = 0
    /\ open_positions = 0
    /\ max_open_positions = 1
    /\ last = Call("init", "", "", 0, 0, 0, 0, NULL, "", NoPrices)
    /\ trading_mode = "paper"
    /\ broker = "none"
    /\ threads = NoThreads
    /\ \E n \in 0..MaxBars : \E frame \in Frames(n), commission \in Commissions :
           bt = BtStart(frame, commission)

\* a Buy with the sample taken after it
BarBuySampledLate ==
    /\ InLoop
    /\ BuyBranch(bt)
    /\ bt' = NextBar(SampledAfter(bt, ExecuteBuy(bt)))
    /\ BtOnly

\* one iteration that takes the Buy branch
BarBuy ==
    /\ InLoop
    /\ BuyBranch(bt)
    /\ bt' = NextBar(ExecuteBuy(Sampled(bt)))
    /\ BtOnly

\* one iteration that takes the Sell branch
BarSell ==
    /\ InLoop
    /\ ~BuyBranch(bt)
    /\ SellBranch(bt)
    /\ bt' = NextBar(ExecuteSell(Sampled(bt)))
    /\ BtOnly

\* one iteration that takes neither
BarHold ==
    /\ InLoop
    /\ ~BuyBranch(bt)
    /\ ~SellBranch(bt)
    /\ bt' = NextBar(Sampled(bt))
    /\ BtOnly

\* the close at the end (lines 104-118): df['close'].iloc[-1]
CloseOpenPosition(b) ==
    LET last_close == b.close[Len(b.close)]
        final_value == b.position * last_close
        fee == Times(final_value, b.commission)
    IN  [b EXCEPT !.capital = b.capital + final_value - fee,
                  !.trades = Append(@, SellTrade(Len(b.close) - 1, last_close,
                                                 b.position, final_value,
                                                 final_value - b.position_value)),
                  !.exact = @ /\ TimesExact(final_value, b.commission)]

\* the loop is over and the open position is never closed
CloseAtEndSkipped ==
    /\ bt.pc = "loop"
    /\ bt.i > Len(bt.close)
    /\ bt' = [bt EXCEPT !.pc = "metrics"]
    /\ BtOnly

\* the loop is over: `if position > 0:` and its block
CloseAtEnd ==
    /\ bt.pc = "loop"
    /\ bt.i > Len(bt.close)
    /\ bt' = [(IF bt.position > 0 THEN CloseOpenPosition(bt) ELSE bt)
                 EXCEPT !.pc = "metrics"]
    /\ BtOnly

\* the trades of one type
TradesOfType(trades, type) ==
    LET IsType(t) == t.type = type IN SelectSeq(trades, IsType)

\* the greatest common divisor of two naturals
RECURSIVE Gcd(_, _)
Gcd(a, b) == IF b = 0 THEN a ELSE Gcd(b, a % b)

\* the quotient a / b (b > 0) in lowest terms
Quotient(a, b) == LET g == Gcd(Abs(a), b) IN <<a \div g, b \div g>>

\* portfolio_series.cummax() at index k
RECURSIVE CumMax(_, _)
CumMax(values, k) ==
    IF k = 1 THEN values[1]
    ELSE LET before == CumMax(values, k - 1)
         IN  IF values[k] > before THEN values[k] ELSE before

\* drawdown.min() * 100 (lines 137-140), as the kind of float it is: the
\* minimum of an empty Series is NaN; drawdown[0] is 0 and no entry is positive
max_drawdown(values) ==
    IF values = <<>> THEN "nan"
    ELSE IF \E k \in 1..Len(values) : values[k] < CumMax(values, k)
         THEN "negative"
         ELSE "zero"

\* portfolio_series.pct_change().dropna(): the first entry is NaN and dropped
pct_change(values) ==
    [k \in 1..(IF values = <<>> THEN 0 ELSE Len(values) - 1) |->
        Quotient(values[k + 1] - values[k], values[k])]

\* 252 / 0.05: the risk-free rate per period is 1 / 5040
RISK_FREE_INVERSE == 5040

\* returns.std() == 0: every return is the same (ddof = 1, two or more returns)
StdIsZero(returns) == \A j, k \in 1..Len(returns) : returns[j] = returns[k]

\* the sign of excess_returns.mean() when every return is the same return r
ExcessSign(r) ==
    LET risk_free == r[2] \div RISK_FREE_INVERSE
    IN  IF r[2] % RISK_FREE_INVERSE = 0 /\ r[1] = risk_free THEN 0
        ELSE IF r[1] > risk_free THEN 1 ELSE -1

\* np.sqrt(252) * excess_returns.mean() / returns.std() if len(returns) > 0
\* else 0 (line 145), as the kind of float it is: the std of one return is
\* NaN, and a division by a zero std gives an infinity, or NaN for 0 / 0
sharpe_ratio(returns) ==
    IF Len(returns) = 0 THEN "zero"
    ELSE IF Len(returns) = 1 THEN "nan"
    ELSE IF StdIsZero(returns)
         THEN CASE ExcessSign(returns[1]) = 0 -> "nan"
                [] ExcessSign(returns[1]) = 1 -> "inf"
                [] OTHER -> "-inf"
    ELSE "finite"

\* ((final_capital - initial_capital) / initial_capital) * 100 (line 122)
total_return(final_capital) ==
    Quotient(final_capital - INITIAL_CAPITAL * SCALE,
             (INITIAL_CAPITAL * SCALE) \div 100)

\* the counts, the final capital and the metrics of self.results (lines 121-162)
Results(b) ==
    LET buy_trades == TradesOfType(b.trades, "BUY")
        sell_trades == TradesOfType(b.trades, "SELL")
        Won(t) == t.pnl > 0
        Lost(t) == t.pnl < 0
    IN  [initial_capital |-> INITIAL_CAPITAL * SCALE,
         final_capital |-> b.capital,
         total_return |-> total_return(b.capital),
         max_drawdown |-> max_drawdown(b.portfolio_values),
         sharpe_ratio |-> sharpe_ratio(pct_change(b.portfolio_values)),
         total_trades |-> Len(buy_trades),
         winning_trades |-> Len(SelectSeq(sell_trades, Won)),
         losing_trades |-> Len(SelectSeq(sell_trades, Lost)),
         trades |-> b.trades,
         portfolio_values |-> b.portfolio_values]

\* the metrics and self.results
ComputeMetrics ==
    /\ bt.pc = "metrics"
    /\ bt' = [bt EXCEPT !.pc = "done", !.results = Results(bt)]
    /\ BtOnly

NextBacktest ==
    \/ BarBuy
    \/ BarSell
    \/ BarHold
    \/ CloseAtEnd
    \/ ComputeMetrics

SpecBacktest == InitBacktest /\ [][NextBacktest]_vars

\* every division made so far left no remainder
BtExact == bt.exact

\* the trade log reads BUY, SELL, BUY, SELL, ...
Alternates(trades) ==
    \A k \in 1..Len(trades) :
        trades[k].type = IF k % 2 = 1 THEN "BUY" ELSE "SELL"

\* the trades appended by the step
NewTrades == SubSeq(bt'.trades, Len(bt.trades) + 1, Len(bt'.trades))

\* the step keeps the trades there were
KeepsTrades ==
    /\ Len(bt'.trades) >= Len(bt.trades)
    /\ SubSeq(bt'.trades, 1, Len(bt.trades)) = bt.trades

\* C18: run executes a Buy at bar i only if signal[i] is Buy and no
\* position is held, and a Sell only if signal[i] is Sell and a position is
\* held; at most one trade is made per bar, and the trade log alternates
\* BUY, SELL, starting with BUY.
C18_TradesFollowSignals ==
    [][/\ InLoop
          => /\ KeepsTrades
             /\ Len(NewTrades) <= 1
             /\ \A k \in 1..Len(NewTrades) :
                    /\ NewTrades[k].date = bt.i - 1
                    /\ NewTrades[k].type = "BUY"
                         => bt.signal[bt.i] = 1 /\ bt.position = 0
                    /\ NewTrades[k].type = "SELL"
                         => bt.signal[bt.i] = -1 /\ bt.position > 0
       /\ Alternates(bt'.trades)
      ]_vars

\* a Buy, a Sell and a second Buy were made in the loop
C18_Witness ==
    /\ bt.pc = "loop"
    /\ Len(bt.trades) = 3
    /\ bt.trades[3].type = "BUY"
    /\ bt.position > 0

\* C19: a position held after the last bar is sold at close[N-1], the
\* commission deducted and a SELL trade with its P&L recorded, before
\* final_capital and the metrics are computed; the trade log has as many
\* SELL trades as BUY trades.
C19_ClosedAtEnd ==
    [][/\ (bt.pc = "loop" /\ bt'.pc = "metrics")
          => LET last_close == bt.close[Len(bt.close)]
                 final_value == bt.position * last_close
                 fee == (final_value * bt.commission.num) \div bt.commission.den
             IN  IF bt.position > 0
                 THEN /\ bt'.trades =
                            Append(bt.trades,
                                   SellTrade(Len(bt.close) - 1, last_close, bt.position,
                                             final_value,
                                             final_value - bt.position_value))
                      /\ bt'.capital = bt.capital + final_value - fee
                 ELSE /\ bt'.trades = bt.trades
                      /\ bt'.capital = bt.capital
       /\ bt'.pc = "done"
          => /\ bt.pc = "metrics"
             /\ bt'.results.final_capital = bt.capital
             /\ bt'.results.trades = bt.trades
             /\ Len(TradesOfType(bt'.results.trades, "SELL"))
                  = Len(TradesOfType(bt'.results.trades, "BUY"))
      ]_vars

\* the run is over, the position bought at a commission was still held
\* after the last bar, and the last trade is its sale at the last close
C19_Witness ==
    /\ bt.pc = "done"
    /\ bt.position > 0
    /\ bt.commission.num > 0
    /\ bt.signal[Len(bt.close)] # -1
    /\ bt.results.trades[Len(bt.results.trades)].type = "SELL"
    /\ bt.results.trades[Len(bt.results.trades)].price = bt.close[Len(bt.close)]
    /\ bt.results.final_capital # bt.results.initial_capital

\* C20: the equity curve has one sample per bar, in bar order; sample i is
\* cash + position quantity x close[i] as they stand before any trade at
\* bar i, so sample 0 is the initial capital.
C20_EquitySampledBeforeTrade ==
    [][/\ InLoop
          => bt'.portfolio_values =
                 Append(bt.portfolio_values,
                        bt.capital + bt.position * bt.close[bt.i])
       /\ ~InLoop => bt'.portfolio_values = bt.portfolio_values
       /\ Len(bt'.portfolio_values) = bt'.i - 1
       /\ bt'.portfolio_values # <<>>
          => bt'.portfolio_values[1] = INITIAL_CAPITAL * SCALE
       /\ bt'.pc = "done"
          => /\ bt'.results.portfolio_values = bt'.portfolio_values
             /\ Len(bt'.results.portfolio_values) = Len(bt'.close)
      ]_vars

\* the run is over with a sample for each of three bars, taken around a
\* Buy made at a commission
C20_Witness ==
    /\ bt.pc = "done"
    /\ Len(bt.close) = 3
    /\ Len(bt.results.portfolio_values) = 3
    /\ bt.commission.num > 0
    /\ bt.trades # <<>>
    /\ bt.trades[1].date = 0
    /\ bt.results.portfolio_values[2] < bt.results.portfolio_values[1]

\* every bar of the frame carries the Hold signal
HoldOnly == \A i \in 1..Len(bt.signal) : bt.signal[i] = 0

\* C21: a run over a series whose signal is Hold at every bar ends with
\* total_return 0, total_trades 0, max_drawdown 0 and a Sharpe ratio of 0.
C21_HoldOnlyRunIsAllZero ==
    (bt.pc = "done" /\ bt.close # <<>> /\ HoldOnly)
        => /\ bt.results.total_return[1] = 0
           /\ bt.results.total_trades = 0
           /\ bt.results.max_drawdown = "zero"
           /\ bt.results.sharpe_ratio = "zero"

\* C22: the Sharpe ratio of a run is 0 whenever the equity curve gives fewer
\* than two returns or the standard deviation of the returns is 0.
C22_SharpeZeroWhenDegenerate ==
    bt.pc = "done"
        => LET returns == pct_change(bt.results.portfolio_values)
           IN  (Len(returns) < 2 \/ StdIsZero(returns))
                   => bt.results.sharpe_ratio = "zero"

\* no sample of the curve is below the sample before it
NonDecreasing(values) ==
    \A k \in 1..Len(values) : k > 1 => values[k] >= values[k - 1]

\* C24: the max_drawdown of every equity curve a run produces is at most 0,
\* and it is 0 exactly when the curve never decreases.
C24_DrawdownNonPositive ==
    bt.pc = "done"
        => /\ bt.results.max_drawdown \in {"zero", "negative"}
           /\ bt.results.max_drawdown = "zero"
                  <=> NonDecreasing(bt.results.portfolio_values)

(***************************************************************************)
(* SpecSignals: the strategies of technical_strategies.py.  A strategy     *)
(* is applied to a frame of closes as run does before its loop:            *)
(* calculate_indicators, then generate_signals.  A column of the frame is  *)
(* a sequence of floats; a float is a pair <<n, d>>: the rational n / d    *)
(* in lowest terms when d > 0, and NaN, +inf or -inf when d = 0.           *)
(***************************************************************************)

\* the longest frame of closes
MaxSignalBars == 4

\* the closes of a frame
SignalCloses == 1..5

\* the strategies, with MovingAverageCrossover in both of its ma_type
StrategyVariants == {"SMA", "EMA", "RSI", "MACD", "BB"}

\* MovingAverageCrossover(short_window, long_window)
SHORT_WINDOW == 2
LONG_WINDOW == 3

\* RSIStrategy(period, oversold=30, overbought=70)
RSI_PERIOD == 2
OVERSOLD == 30
OVERBOUGHT == 70

\* MACDStrategy(fast, slow, signal)
MACD_FAST == 2
MACD_SLOW == 3
MACD_SIGNAL == 2

\* BollingerBandsStrategy(period, std_dev)
BB_PERIOD == 3
BB_STD_DEV == 1

NaN == <<0, 0>>
Inf == <<1, 0>>
NegInf == <<-1, 0>>

\* the float n / d of two integers, d > 0
Rat(n, d) == Quotient(n, d)

IsFinite(x) == x[2] > 0

\* -1, 0 or 1 (NaN has no sign and is never asked for one)
Sign(x) == IF x[1] > 0 THEN 1 ELSE IF x[1] < 0 THEN -1 ELSE 0

\* -x
FNeg(x) == <<0 - x[1], x[2]>>

\* x + y
FAdd(x, y) ==
    IF x = NaN \/ y = NaN THEN NaN
    ELSE IF ~IsFinite(x) /\ ~IsFinite(y) THEN (IF x = y THEN x ELSE NaN)
    ELSE IF ~IsFinite(x) THEN x
    ELSE IF ~IsFinite(y) THEN y
    ELSE LET g == Gcd(x[2], y[2])
         IN  Rat(x[1] * (y[2] \div g) + y[1] * (x[2] \div g),
                 (x[2] \div g) * y[2])

\* x - y
FSub(x, y) == FAdd(x, FNeg(y))

\* x * y
FMul(x, y) ==
    IF x = NaN \/ y = NaN THEN NaN
    ELSE IF ~IsFinite(x) \/ ~IsFinite(y)
         THEN (IF Sign(x) * Sign(y) = 0 THEN NaN
               ELSE IF Sign(x) * Sign(y) > 0 THEN Inf ELSE NegInf)
    ELSE LET a == Rat(x[1], y[2])
             b == Rat(y[1], x[2])
         IN  <<a[1] * b[1], a[2] * b[2]>>

\* x / y with 0 / 0 taken as +inf
FDivZeroByZeroInf(x, y) ==
    IF x = NaN \/ y = NaN THEN NaN
    ELSE IF ~IsFinite(x) THEN (IF ~IsFinite(y) THEN NaN
                               ELSE IF Sign(y) < 0 THEN FNeg(x) ELSE x)
    ELSE IF ~IsFinite(y) THEN <<0, 1>>
    ELSE IF Sign(y) = 0 THEN (IF Sign(x) < 0 THEN NegInf ELSE Inf)
    ELSE FMul(x, IF y[1] > 0 THEN <<y[2], y[1]>> ELSE <<0 - y[2], 0 - y[1]>>)

\* x / y as numpy divides: a division by zero is an infinity, 0 / 0 is NaN,
\* and nothing is raised
FDiv(x, y) ==
    IF x = NaN \/ y = NaN THEN NaN
    ELSE IF ~IsFinite(x) THEN (IF ~IsFinite(y) THEN NaN
                               ELSE IF Sign(y) < 0 THEN FNeg(x) ELSE x)
    ELSE IF ~IsFinite(y) THEN <<0, 1>>
    ELSE IF Sign(y) = 0
         THEN (IF Sign(x) = 0 THEN NaN ELSE IF Sign(x) > 0 THEN Inf ELSE NegInf)
    ELSE FMul(x, IF y[1] > 0 THEN <<y[2], y[1]>> ELSE <<0 - y[2], 0 - y[1]>>)

\* x > y: False when either is NaN.  The comparison is of the exact values:
\* two columns that tie exactly are equal here
Gt(x, y) ==
    /\ x # NaN
    /\ y # NaN
    /\ x # y
    /\ IF ~IsFinite(x) THEN x = Inf
       ELSE IF ~IsFinite(y) THEN y = NegInf
       ELSE LET g == Gcd(x[2], y[2])
            IN  x[1] * (y[2] \div g) > y[1] * (x[2] \div g)

\* x < y
Lt(x, y) == Gt(y, x)

\* x >= y: False when either is NaN
Ge(x, y) == x # NaN /\ y # NaN /\ ~Gt(y, x)

\* x <= y
Le(x, y) == Ge(y, x)

\* a column of integers as a column of floats
AsFloats(values) == [i \in 1..Len(values) |-> <<values[i], 1>>]

\* column.shift(-1): the entry that follows, NaN at the last index
ShiftForward(column) ==
    [i \in 1..Len(column) |->
        IF i = Len(column) THEN NaN ELSE column[i + 1]]

\* column.shift(1): NaN at the first index
Shift(column) ==
    [i \in 1..Len(column) |-> IF i = 1 THEN NaN ELSE column[i - 1]]

\* the sum of the w entries of a column that end at index i
RECURSIVE WindowSum(_, _, _)
WindowSum(column, i, w) ==
    IF w = 0 THEN <<0, 1>>
    ELSE FAdd(column[i], WindowSum(column, i - 1, w - 1))

\* column.rolling(window=w).mean(): NaN until w entries are there
RollingMean(column, w) ==
    [i \in 1..Len(column) |->
        IF i < w THEN NaN ELSE FDiv(WindowSum(column, i, w), <<w, 1>>)]

\* column.ewm(span=span, adjust=False).mean() at index i: y[0] = x[0] and
\* y[i] = alpha * x[i] + (1 - alpha) * y[i-1] with alpha = 2 / (span + 1)
RECURSIVE EwmAt(_, _, _)
EwmAt(column, span, i) ==
    IF i = 1 THEN column[1]
    ELSE FAdd(FMul(Rat(2, span + 1), column[i]),
              FMul(Rat(span - 1, span + 1), EwmAt(column, span, i - 1)))

\* column.ewm(span=span, adjust=False).mean()
Ewm(column, span) == [i \in 1..Len(column) |-> EwmAt(column, span, i)]

\* df['signal'] = 0, then 1 where Buy holds, then -1 where Sell holds: the
\* later assignment wins
SignalColumn(buy, sell) ==
    [i \in 1..Len(buy) |-> IF sell[i] THEN -1 ELSE IF buy[i] THEN 1 ELSE 0]

\* the crossover of two columns: Buy where a > b and a.shift(1) <= b.shift(1),
\* Sell where a < b and a.shift(1) >= b.shift(1)
Crossover(a, b) ==
    LET IsBuyAt(i) == Gt(a[i], b[i]) /\ Le(Shift(a)[i], Shift(b)[i])
        IsSellAt(i) == Lt(a[i], b[i]) /\ Ge(Shift(a)[i], Shift(b)[i])
    IN  SignalColumn([i \in 1..Len(a) |-> IsBuyAt(i)],
                     [i \in 1..Len(a) |-> IsSellAt(i)])

\* MovingAverageCrossover.calculate_indicators
ma_calculate_indicators(close, ma_type) ==
    IF ma_type = "SMA"
    THEN [ma_short |-> RollingMean(AsFloats(close), SHORT_WINDOW),
          ma_long |-> RollingMean(AsFloats(close), LONG_WINDOW)]
    ELSE [ma_short |-> Ewm(AsFloats(close), SHORT_WINDOW),
          ma_long |-> Ewm(AsFloats(close), LONG_WINDOW)]

\* MovingAverageCrossover.generate_signals
ma_generate_signals(df) == Crossover(df.ma_short, df.ma_long)

\* close.diff(): NaN at the first index
Diff(column) ==
    [i \in 1..Len(column) |->
        IF i = 1 THEN NaN ELSE FSub(column[i], column[i - 1])]

\* RSIStrategy.calculate_indicators
rsi_calculate_indicators(close) ==
    LET delta == Diff(AsFloats(close))
        zero == <<0, 1>>
        gains == [i \in 1..Len(close) |->
                     IF Gt(delta[i], zero) THEN delta[i] ELSE zero]
        losses == [i \in 1..Len(close) |->
                      FNeg(IF Lt(delta[i], zero) THEN delta[i] ELSE zero)]
        gain == RollingMean(gains, RSI_PERIOD)
        loss == RollingMean(losses, RSI_PERIOD)
        rs == [i \in 1..Len(close) |-> FDiv(gain[i], loss[i])]
    IN  [rsi |-> [i \in 1..Len(close) |->
                     FSub(<<100, 1>>,
                          FDiv(<<100, 1>>, FAdd(<<1, 1>>, rs[i])))]]

\* RSIStrategy.generate_signals
rsi_generate_signals(df) ==
    LET rsi == df.rsi
        IsBuyAt(i) == Gt(rsi[i], <<OVERSOLD, 1>>)
                  /\ Le(Shift(rsi)[i], <<OVERSOLD, 1>>)
        IsSellAt(i) == Lt(rsi[i], <<OVERBOUGHT, 1>>)
                   /\ Ge(Shift(rsi)[i], <<OVERBOUGHT, 1>>)
    IN  SignalColumn([i \in 1..Len(rsi) |-> IsBuyAt(i)],
                     [i \in 1..Len(rsi) |-> IsSellAt(i)])

\* MACDStrategy.calculate_indicators
macd_calculate_indicators(close) ==
    LET ema_fast == Ewm(AsFloats(close), MACD_FAST)
        ema_slow == Ewm(AsFloats(close), MACD_SLOW)
        macd == [i \in 1..Len(close) |-> FSub(ema_fast[i], ema_slow[i])]
        macd_signal == Ewm(macd, MACD_SIGNAL)
    IN  [macd |-> macd,
         macd_signal |-> macd_signal,
         macd_hist |-> [i \in 1..Len(close) |->
                           FSub(macd[i], macd_signal[i])]]

\* MACDStrategy.generate_signals
macd_generate_signals(df) == Crossover(df.macd, df.macd_signal)

\* close.rolling(window=w).std() squared: the sample variance (ddof = 1) of
\* the w entries that end at each index, NaN until w entries are there
RollingVariance(column, w) ==
    LET mean == RollingMean(column, w)
        squares(i) == [k \in 1..Len(column) |->
                          IF k > i - w /\ k <= i
                          THEN FMul(FSub(column[k], mean[i]),
                                    FSub(column[k], mean[i]))
                          ELSE <<0, 1>>]
    IN  [i \in 1..Len(column) |->
            IF i < w THEN NaN
            ELSE FDiv(WindowSum(squares(i), i, w), <<w - 1, 1>>)]

\* BollingerBandsStrategy.calculate_indicators; bb_std is kept as its square,
\* and the two bands as bb_middle -/+ std_dev * bb_std
bb_calculate_indicators(close) ==
    [close |-> AsFloats(close),
     bb_middle |-> RollingMean(AsFloats(close), BB_PERIOD),
     bb_std_squared |-> RollingVariance(AsFloats(close), BB_PERIOD)]

\* x > middle - std_dev * std, in exact arithmetic
AboveLower(x, middle, std_squared) ==
    /\ x # NaN /\ middle # NaN /\ std_squared # NaN
    /\ LET d == FSub(x, middle)
       IN  \/ Sign(d) > 0
           \/ Sign(d) = 0 /\ Sign(std_squared) > 0
           \/ Sign(d) < 0
              /\ Lt(FMul(d, d),
                    FMul(<<BB_STD_DEV * BB_STD_DEV, 1>>, std_squared))

\* x < middle + std_dev * std, in exact arithmetic
BelowUpper(x, middle, std_squared) ==
    /\ x # NaN /\ middle # NaN /\ std_squared # NaN
    /\ LET d == FSub(x, middle)
       IN  \/ Sign(d) < 0
           \/ Sign(d) = 0 /\ Sign(std_squared) > 0
           \/ Sign(d) > 0
              /\ Lt(FMul(d, d),
                    FMul(<<BB_STD_DEV * BB_STD_DEV, 1>>, std_squared))

\* BollingerBandsStrategy.generate_signals: Buy where close > bb_lower and
\* close.shift(1) <= bb_lower.shift(1); Sell where close < bb_upper and
\* close.shift(1) >= bb_upper.shift(1)
bb_generate_signals(df) ==
    LET x == df.close
        m == df.bb_middle
        v == df.bb_std_squared
        Known(i) == Shift(x)[i] # NaN /\ Shift(m)[i] # NaN /\ Shift(v)[i] # NaN
        IsBuyAt(i) == /\ AboveLower(x[i], m[i], v[i])
                  /\ Known(i)
                  /\ ~AboveLower(Shift(x)[i], Shift(m)[i], Shift(v)[i])
        IsSellAt(i) == /\ BelowUpper(x[i], m[i], v[i])
                   /\ Known(i)
                   /\ ~BelowUpper(Shift(x)[i], Shift(m)[i], Shift(v)[i])
    IN  SignalColumn([i \in 1..Len(x) |-> IsBuyAt(i)],
                     [i \in 1..Len(x) |-> IsSellAt(i)])

\* strategy.calculate_indicators(df)
calculate_indicators(strategy, close) ==
    CASE strategy \in {"SMA", "EMA"} -> ma_calculate_indicators(close, strategy)
      [] strategy = "RSI" -> rsi_calculate_indicators(close)
      [] strategy = "MACD" -> macd_calculate_indicators(close)
      [] strategy = "BB" -> bb_calculate_indicators(close)

\* strategy.generate_signals(df)
generate_signals(strategy, df) ==
    CASE strategy \in {"SMA", "EMA"} -> ma_generate_signals(df)
      [] strategy = "RSI" -> rsi_generate_signals(df)
      [] strategy = "MACD" -> macd_generate_signals(df)
      [] strategy = "BB" -> bb_generate_signals(df)

\* the frames of closes of n bars
CloseFrames(n) == [1..n -> SignalCloses]

\* run(df) of a Backtester(strategy), before calculate_indicators
InitSignals ==
    /\ positions = <<>>
    /\ closed_positions = <<>>
    /\ orders = <<>>
    /\ capital = CAPITAL
    /\ daily_pnl = 0
    /\ open_positions = 0
    /\ max_open_positions = 1
    /\ last = Call("init", "", "", 0, 0, 0, 0, NULL, "", NoPrices)
    /\ trading_mode = "paper"
    /\ broker = "none"
    /\ threads = NoThreads
    /\ \E n \in 0..MaxSignalBars :
           \E close \in CloseFrames(n), strategy \in StrategyVariants :
               bt = [pc |-> "start", strategy |-> strategy, close |-> close,
                     df |-> NULL, signal |-> NULL]

\* df = self.strategy.calculate_indicators(df)
CalculateIndicators ==
    /\ bt.pc = "start"
    /\ bt' = [bt EXCEPT !.pc = "indicators",
                        !.df = calculate_indicators(bt.strategy, bt.close)]
    /\ BtOnly

\* df = self.strategy.generate_signals(df)
GenerateSignals ==
    /\ bt.pc = "indicators"
    /\ bt' = [bt EXCEPT !.pc = "signals",
                        !.signal = generate_signals(bt.strategy, bt.df)]
    /\ BtOnly

NextSignals ==
    \/ CalculateIndicators
    \/ GenerateSignals

SpecSignals == InitSignals /\ [][NextSignals]_vars

\* the signals a strategy gives on a frame of closes
SignalsOn(strategy, close) ==
    generate_signals(strategy, calculate_indicators(strategy, close))

StrictlyIncreasing(close) ==
    \A i \in 1..Len(close) : i > 1 => close[i] > close[i - 1]

\* C26: on a strictly increasing series of closes, a MovingAverageCrossover
\* with short_window < long_window emits a Buy once both windows are
\* populated.
C26_RisingSeriesGetsBuy ==
    (/\ bt.pc = "signals"
     /\ bt.strategy \in {"SMA", "EMA"}
     /\ StrictlyIncreasing(bt.close)
     /\ Len(bt.close) > LONG_WINDOW)
        => \E i \in 1..Len(bt.close) : bt.signal[i] = 1

\* the longest window a strategy is configured with
LongestWindow(strategy) ==
    CASE strategy \in {"SMA", "EMA"} -> LONG_WINDOW
      [] strategy = "RSI" -> RSI_PERIOD
      [] strategy = "MACD" -> MACD_SLOW
      [] strategy = "BB" -> BB_PERIOD

\* C27: for every strategy, no Buy or Sell is emitted before the longest
\* configured window is populated: the signal is Hold at each index before it.
C27_HoldUntilWindowPopulated ==
    bt.pc = "signals"
        => \A i \in 1..Len(bt.close) :
               i < LongestWindow(bt.strategy) => bt.signal[i] = 0

\* every close of the frame is the same
Flat(close) == \A i, j \in 1..Len(close) : close[i] = close[j]

\* C28: on a flat series RSIStrategy computes its indicator and its signals
\* without raising; the RSI of a zero average loss is NaN, the same at
\* every index, and the signal is Hold at every index.
C28_FlatSeriesRsiHolds ==
    (bt.pc \in {"indicators", "signals"} /\ bt.strategy = "RSI"
     /\ Flat(bt.close))
        => /\ \A i \in 1..Len(bt.close) : bt.df.rsi[i] = NaN
           /\ bt.pc = "signals"
              => \A i \in 1..Len(bt.close) : bt.signal[i] = 0

\* the signals of RSIStrategy are there for a flat frame of the longest length
C28_Witness ==
    /\ bt.pc = "signals"
    /\ bt.strategy = "RSI"
    /\ Flat(bt.close)
    /\ Len(bt.close) = MaxSignalBars
    /\ Len(bt.signal) = MaxSignalBars

\* C23: a run on an empty series, or on one shorter than the indicator
\* window of its strategy (whose signal is then Hold at every bar), ends
\* with no trades, final_capital equal to the initial capital, total_return
\* 0 and a zero max_drawdown and Sharpe ratio.
C23_ShortSeriesGivesZeroedResult ==
    (/\ bt.pc = "done"
     /\ \/ bt.close = <<>>
        \/ Len(bt.close) < LONG_WINDOW /\ HoldOnly)
        => /\ bt.results.trades = <<>>
           /\ bt.results.final_capital = bt.results.initial_capital
           /\ bt.results.total_return[1] = 0
           /\ bt.results.max_drawdown = "zero"
           /\ bt.results.sharpe_ratio = "zero"

\* C29: with a positive capital, calculate_position_size(entry, stop,
\* risk_pct) returns floor(capital x (risk_pct / 100) / |entry - stop|) when
\* entry and stop differ and 0 when they are equal, and does not raise.
C29_PositionSizeIsFloor ==
    (last.op = "calculate_position_size" /\ capital > 0)
        => LET price_risk == Abs(last.args[1] - last.args[2])
           IN  /\ ~last.raised
               /\ last.ret = IF price_risk = 0 THEN 0
                             ELSE (capital * last.args[3]) \div (100 * price_risk)

(***************************************************************************)
(* SpecPnl: OrderManager.get_total_pnl, asked of ledgers that hold open    *)
(* and closed positions.                                                   *)
(***************************************************************************)

\* the most orders a ledger is given before it is asked
MaxPnlOrders == 4

\* the quantity and price of a Buy
PnlQuantities == {10}
PnlEntryPrices == {750}

\* the prices a query or a close may carry
PnlPrices == {500, 1000}

\* current_prices: the maps from some of the symbols to a price; the empty
\* map stands for both {} and None, which `if current_prices:` treats alike
PnlPriceMaps == UNION {[S -> PnlPrices] : S \in SUBSET Symbols}

\* get_position_pnl(symbol, current_price)
get_position_pnl(st, symbol, current_price) ==
    IF ~DictHas(st.positions, symbol) THEN 0
    ELSE LET position == DictGet(st.positions, symbol)
         IN  (current_price - position.entry_price) * position.quantity

\* sum(pos.pnl for pos in self.closed_positions)
RECURSIVE RealizedPnl(_)
RealizedPnl(closed) ==
    IF closed = <<>> THEN 0 ELSE Head(closed).pnl + RealizedPnl(Tail(closed))

\* the loop over self.positions.items() from its i-th item on
RECURSIVE UnrealizedFrom(_, _, _)
UnrealizedFrom(st, i, current_prices) ==
    IF i > Len(st.positions) THEN 0
    ELSE LET symbol == st.positions[i].symbol
         IN  (IF symbol \in DOMAIN current_prices
              THEN get_position_pnl(st, symbol, current_prices[symbol])
              ELSE 0)
             + UnrealizedFrom(st, i + 1, current_prices)

\* the dict get_total_pnl returns
PnlBreakdown(realized_pnl, unrealized_pnl) ==
    [realized_pnl |-> realized_pnl, unrealized_pnl |-> unrealized_pnl,
     total_pnl |-> realized_pnl + unrealized_pnl]

\* get_total_pnl with a position that has no supplied price valued at price 0
get_total_pnl_unpriced_at_zero(st, current_prices) ==
    LET Value(i) == (IF st.positions[i].symbol \in DOMAIN current_prices
                     THEN current_prices[st.positions[i].symbol] ELSE 0)
                    - st.positions[i].entry_price
        RECURSIVE From(_)
        From(i) == IF i > Len(st.positions) THEN 0
                   ELSE Value(i) * st.positions[i].quantity + From(i + 1)
    IN  PnlBreakdown(RealizedPnl(st.closed_positions), From(1))

\* get_total_pnl(current_prices)
get_total_pnl(st, current_prices) ==
    PnlBreakdown(RealizedPnl(st.closed_positions),
                 IF current_prices # NoPrices
                 THEN UnrealizedFrom(st, 1, current_prices)
                 ELSE 0)

\* order_manager.get_total_pnl(current_prices)
GetTotalPnl ==
    \E current_prices \in PnlPriceMaps :
        /\ Asked
        /\ last' = Call("get_total_pnl", "", "", 0, 0, 0, 0,
                        get_total_pnl(State, current_prices), "", current_prices)

\* order_manager.place_order(symbol, "BUY", quantity, price)
PnlBuy ==
    \E symbol \in Symbols, quantity \in PnlQuantities, price \in PnlEntryPrices :
        LET r == place_order(State, symbol, "BUY", quantity, price, 0, 0)
        IN  /\ Len(orders) < MaxPnlOrders
            /\ Install(r.st)
            /\ last' = Call("place_order", symbol, "BUY", quantity, price,
                            0, 0, r.ret, r.message, NoPrices)

\* order_manager.close_all_positions(current_prices)
PnlCloseAll ==
    \E current_prices \in PnlPriceMaps :
        /\ Install(close_all_positions(State, current_prices))
        /\ last' = Call("close_all_positions", "", "", 0, 0, 0, 0,
                        NULL, "", current_prices)

NextPnl ==
    \/ PnlBuy
    \/ PnlCloseAll
    \/ GetTotalPnl

SpecPnl == Init /\ [][NextPnl]_vars

\* the sum of f over the indices 1..n
RECURSIVE SumTo(_, _)
SumTo(n, f) == IF n = 0 THEN 0 ELSE f[n] + SumTo(n - 1, f)

\* C30: get_total_pnl(prices) returns, as realized, the sum of the pnl of
\* the closed positions; as unrealized, the sum over the open positions
\* that have a supplied price of quantity x (price - entry_price), 0 when no
\* price is supplied; as total, their sum; and it changes no position, order
\* or risk field.
C30_TotalPnlIsSumOfParts ==
    [][last'.op = "get_total_pnl"
       => LET prices == last'.current_prices
              realized == SumTo(Len(closed_positions),
                                [i \in 1..Len(closed_positions) |->
                                    closed_positions[i].pnl])
              unrealized ==
                  SumTo(Len(positions),
                        [i \in 1..Len(positions) |->
                            IF positions[i].symbol \in DOMAIN prices
                            THEN positions[i].quantity
                                 * (prices[positions[i].symbol]
                                    - positions[i].entry_price)
                            ELSE 0])
          IN  /\ last'.ret.realized_pnl = realized
              /\ last'.ret.unrealized_pnl = unrealized
              /\ last'.ret.total_pnl = realized + unrealized
              /\ UNCHANGED ledger
      ]_vars

\* the query was answered for a ledger with a closed position at a loss or
\* gain, one open position with a supplied price and a move, and one without
C30_Witness ==
    /\ last.op = "get_total_pnl"
    /\ last.ret.realized_pnl # 0
    /\ last.ret.unrealized_pnl # 0
    /\ \E i \in 1..Len(positions) :
           positions[i].symbol \notin DOMAIN last.current_prices

\* capital and the limit on open positions, which no counter update touches;
\* the positions and logs of the ledger are not the RiskManager's
risk_frame == <<capital, max_open_positions, positions, closed_positions, orders>>

\* C31: update_daily_pnl, add_position, close_position and reset_daily_pnl
\* each change only their own field of the RiskManager, the daily P&L or
\* the open-position count, and leave capital, the limits and the other
\* field as they were.
C31_MutatorsKeepTheirFrame ==
    [][/\ last'.op = "update_daily_pnl"
          => /\ daily_pnl' = daily_pnl + last'.args[1]
             /\ UNCHANGED <<risk_frame, open_positions>>
       /\ last'.op = "reset_daily_pnl"
          => /\ daily_pnl' = 0
             /\ UNCHANGED <<risk_frame, open_positions>>
       /\ last'.op = "add_position"
          => /\ open_positions' = open_positions + 1
             /\ UNCHANGED <<risk_frame, daily_pnl>>
       /\ last'.op = "close_position"
          => /\ open_positions' =
                    IF open_positions > 0 THEN open_positions - 1 ELSE 0
             /\ UNCHANGED <<risk_frame, daily_pnl>>
      ]_vars

\* the daily P&L was just reset with positions counted, and the capital
\* had been changed before
C31_Witness ==
    /\ last.op = "reset_daily_pnl"
    /\ open_positions > 0
    /\ capital # CAPITAL
    /\ daily_pnl = 0

(***************************************************************************)
(* SpecLedger: a trading day of the paper ledger with its RiskManager:     *)
(* every operation of the OrderManager, and reset_daily_pnl in between.    *)
(***************************************************************************)

\* place_order is called directly only while it leaves the order log within
\* this many records
MaxLedgerOrders == 3

\* a Buy of 50 at 500 is worth 25% of the capital; sold at 400 it loses
\* 5000, exactly 5% of the capital
LedgerQuantities == {50}
LedgerEntryPrices == {500}
LedgerBrackets == {<<400, 600>>}
LedgerPrices == {400, 600}

\* current_prices
LedgerPriceMaps == UNION {[S -> LedgerPrices] : S \in SUBSET Symbols}

\* get_open_positions(): to_dict of each Position, by symbol, and
\* get_closed_positions(): to_dict of each closed Position; to_dict copies
\* the fields (the times, which it turns into text, are not modelled)
get_open_positions(st) == st.positions
get_closed_positions(st) == st.closed_positions

\* order_manager.place_order(symbol, "BUY", quantity, price, stop_loss, take_profit)
LedgerBuy ==
    \E symbol \in Symbols, quantity \in LedgerQuantities,
       price \in LedgerEntryPrices, bracket \in LedgerBrackets :
        LET r == place_order(State, symbol, "BUY", quantity, price,
                             bracket[1], bracket[2])
        IN  /\ r.st.orders = orders \/ Len(r.st.orders) <= MaxLedgerOrders
            /\ Install(r.st)
            /\ last' = Call("place_order", symbol, "BUY", quantity, price,
                            bracket[1], bracket[2], r.ret, r.message, NoPrices)

\* order_manager.place_order(symbol, "SELL", quantity, price)
LedgerSell ==
    \E symbol \in Symbols, quantity \in LedgerQuantities, price \in LedgerPrices :
        LET r == place_order(State, symbol, "SELL", quantity, price, 0, 0)
        IN  /\ r.st.orders = orders \/ Len(r.st.orders) <= MaxLedgerOrders
            /\ Install(r.st)
            /\ last' = Call("place_order", symbol, "SELL", quantity, price,
                            0, 0, r.ret, r.message, NoPrices)

\* order_manager.check_stop_loss_take_profit(current_prices)
LedgerCheck ==
    \E current_prices \in LedgerPriceMaps :
        /\ Install(check_stop_loss_take_profit(State, current_prices))
        /\ last' = Call("check_stop_loss_take_profit", "", "", 0, 0, 0, 0,
                        NULL, "", current_prices)

\* order_manager.close_all_positions(current_prices)
LedgerCloseAll ==
    \E current_prices \in LedgerPriceMaps :
        /\ Install(close_all_positions(State, current_prices))
        /\ last' = Call("close_all_positions", "", "", 0, 0, 0, 0,
                        NULL, "", current_prices)

\* order_manager.get_total_pnl(current_prices)
LedgerTotalPnl ==
    \E current_prices \in LedgerPriceMaps :
        /\ Asked
        /\ last' = Call("get_total_pnl", "", "", 0, 0, 0, 0,
                        get_total_pnl(State, current_prices), "", current_prices)

\* order_manager.get_open_positions()
LedgerOpenPositions ==
    /\ Asked
    /\ last' = Call("get_open_positions", "", "", 0, 0, 0, 0,
                    get_open_positions(State), "", NoPrices)

\* order_manager.get_closed_positions()
LedgerClosedPositions ==
    /\ Asked
    /\ last' = Call("get_closed_positions", "", "", 0, 0, 0, 0,
                    get_closed_positions(State), "", NoPrices)

\* risk_manager.reset_daily_pnl(), at the start of a day
LedgerResetDailyPnl ==
    /\ Install(reset_daily_pnl(State))
    /\ last' = Call("reset_daily_pnl", "", "", 0, 0, 0, 0, NULL, "", NoPrices)

NextLedger ==
    \/ LedgerBuy
    \/ LedgerSell
    \/ LedgerCheck
    \/ LedgerCloseAll
    \/ LedgerTotalPnl
    \/ LedgerOpenPositions
    \/ LedgerClosedPositions
    \/ LedgerResetDailyPnl

SpecLedger == Init /\ [][NextLedger]_vars

\* the operations of the OrderManager
LedgerOperations ==
    {"place_order", "check_stop_loss_take_profit", "close_all_positions",
     "get_total_pnl", "get_open_positions", "get_closed_positions"}

\* C32: every operation of the ledger changes nothing but the open-position
\* map, the closed log, the order log and the gate's open-position count
\* and daily P&L: the gate's capital and limits, the trading mode and the
\* broker are as before, and the three queries change nothing at all.
C32_LedgerOperationsKeepTheirFrame ==
    [][last'.op \in LedgerOperations
       => /\ UNCHANGED <<capital, max_open_positions, trading_mode, broker>>
          /\ last'.op \in {"get_total_pnl", "get_open_positions",
                           "get_closed_positions"}
             => UNCHANGED ledger
      ]_vars

\* a Sell has just closed a position at a loss beyond the daily limit, with
\* another position still open
C32_Witness ==
    /\ IsSell(last)
    /\ last.ret # NULL
    /\ positions # <<>>
    /\ closed_positions # <<>>
    /\ daily_pnl * 100 <= -MAX_DAILY_LOSS * capital
    /\ capital = CAPITAL

\* what can_open_position() answers in this state
CanOpenAnswer ==
    Answer("can_open_position", <<>>,
           can_open_position(State), can_open_position_raises(State))

\* C33: can_open_position() is read-only and idempotent: a call leaves the
\* RiskManager as it was, and a further call right after it gives the same
\* answer (or raises in the same way) as the call just made.
C33_CanOpenPositionIsIdempotent ==
    [][last'.op = "can_open_position"
       => /\ UNCHANGED ledger
          /\ last' = CanOpenAnswer
          /\ last' = CanOpenAnswer'
      ]_vars

\* the check has just refused at the limit on open positions
C33_Witness ==
    /\ last.op = "can_open_position"
    /\ ~last.raised
    /\ last.ret = FALSE
    /\ open_positions = max_open_positions

\* C34: in every state reached through place_order,
\* check_stop_loss_take_profit and close_all_positions in paper mode, the
\* gate's open-position counter equals the number of entries of the
\* open-position map.
C34_CounterMatchesMap == open_positions = Len(positions)

\* C35: with a RiskManager attached and the calls made one after another,
\* the number of open positions of the ledger never exceeds
\* max_open_positions, whatever Buys and Sells are placed.
C35_OpenPositionsWithinLimit == Len(positions) <= max_open_positions

\* the ledger is full and a Buy of another symbol has just been refused for
\* that alone
C35_Witness ==
    /\ IsBuy(last)
    /\ last.ret = NULL
    /\ last.message = MSG_RISK_LIMITS
    /\ Len(positions) = max_open_positions
    /\ \A i \in 1..Len(positions) : positions[i].symbol # last.symbol
    /\ daily_pnl = 0

\* the daily P&L, as a percentage of the (positive) capital, is at or
\* below -max_daily_loss
LockedOut == daily_pnl * 100 <= -MAX_DAILY_LOSS * capital

\* C36: while the daily P&L is at or below -max_daily_loss percent of the
\* capital every Buy through place_order is refused and opens nothing; a
\* Sell is not put to the RiskManager and closes its open position all the
\* same; and once reset_daily_pnl or a later close has brought the daily P&L
\* above the threshold a Buy with a free slot is taken again.
C36_DailyLossLockout ==
    [][/\ LockedOut /\ IsBuy(last')
          => /\ last'.ret = NULL
             /\ UNCHANGED ledger
       /\ LockedOut /\ IsSell(last') /\ DictHas(positions, last'.symbol)
          => /\ last'.ret # NULL
             /\ ~DictHas(positions', last'.symbol)
             /\ Len(closed_positions') = Len(closed_positions) + 1
       /\ ~LockedOut /\ open_positions < max_open_positions /\ IsBuy(last')
          => /\ last'.ret # NULL
             /\ DictHas(positions', last'.symbol)
      ]_vars

\* a day's loss of exactly 5% of the capital: a Buy has just been refused
\* although a slot is free, and a position is still open
C36_Witness ==
    /\ IsBuy(last)
    /\ last.ret = NULL
    /\ daily_pnl * 100 = -MAX_DAILY_LOSS * capital
    /\ positions # <<>>
    /\ open_positions < max_open_positions

RECURSIVE SumOfPnl(_)
\* the sum of the realized P&L of a log of closed positions
SumOfPnl(log) == IF log = <<>> THEN 0 ELSE log[1].pnl + SumOfPnl(Tail(log))

\* the positions a step appends to the closed log
NewlyClosed == SubSeq(closed_positions', Len(closed_positions) + 1, Len(closed_positions'))

\* C37: the gate's daily P&L is the sum of the realized P&L of the positions
\* appended to the closed log since the last reset_daily_pnl: it starts at 0
\* with an empty log, reset_daily_pnl sets it to 0 and leaves the log, and
\* every other step adds to it exactly the realized P&L of the positions
\* that step appends to the log (so that, as long as no reset is made, it
\* equals the realized total of the whole log).
C37_DailyPnlFollowsClosedLog ==
    [][IF last'.op = "reset_daily_pnl"
       THEN /\ daily_pnl' = 0
            /\ closed_positions' = closed_positions
       ELSE /\ Len(closed_positions') >= Len(closed_positions)
            /\ SubSeq(closed_positions', 1, Len(closed_positions)) = closed_positions
            /\ daily_pnl' = daily_pnl + SumOfPnl(NewlyClosed)
      ]_vars

\* a position closed at a loss, a reset, and a second position closed at a
\* profit: the daily P&L is the second one's alone
C37_Witness ==
    /\ Len(closed_positions) = 2
    /\ closed_positions[1].pnl < 0
    /\ closed_positions[2].pnl > 0
    /\ daily_pnl = closed_positions[2].pnl
    /\ daily_pnl # SumOfPnl(closed_positions)

(***************************************************************************)
(* SpecNotional: Buys at the edges of the order-value limits, for two      *)
(* values of the capital.                                                  *)
(***************************************************************************)

\* place_order is called only while it leaves the order log within this
\* many records
MaxNotionalOrders == 3

\* at 500 a share: 1 is the minimum of 500, 30 is 30% of 50000 and 60 is
\* 30% of 100000
NotionalQuantities == {0, 1, 30, 31, 60, 61}

\* price=None (0) and 500
NotionalPrices == {NULL, 500}
NotionalCapitals == {50000, CAPITAL}

\* order_manager.place_order(symbol, "BUY", quantity, price)
NotionalBuy ==
    \E symbol \in Symbols, quantity \in NotionalQuantities, price \in NotionalPrices :
        LET r == place_order(State, symbol, "BUY", quantity, price, 0, 0)
        IN  /\ r.st.orders = orders \/ Len(r.st.orders) <= MaxNotionalOrders
            /\ Install(r.st)
            /\ last' = Call("place_order", symbol, "BUY", quantity, price,
                            0, 0, r.ret, r.message, NoPrices)

\* order_manager.close_all_positions({}): every position at its entry price
NotionalCloseAll ==
    /\ positions # <<>>
    /\ Install(close_all_positions(State, NoPrices))
    /\ last' = Call("close_all_positions", "", "", 0, 0, 0, 0, NULL, "", NoPrices)

\* risk_manager.update_capital(new_capital)
NotionalUpdateCapital ==
    \E new_capital \in NotionalCapitals :
        /\ Install(update_capital(State, new_capital))
        /\ last' = Call("update_capital", "", "", 0, 0, 0, 0, NULL, "", NoPrices)

NextNotional ==
    \/ NotionalBuy
    \/ NotionalCloseAll
    \/ NotionalUpdateCapital

SpecNotional == Init /\ [][NextNotional]_vars

C39_OrderRecordsHaveIds ==
    \A i \in 1..Len(orders) : orders[i].order_id # NULL

RECURSIVE SumOfSellPnl(_)
\* the sum of the P&L recorded by the SELL trades
SumOfSellPnl(trades) ==
    IF trades = <<>> THEN 0
    ELSE (IF trades[1].type = "SELL" THEN trades[1].pnl ELSE 0)
         + SumOfSellPnl(Tail(trades))

RECURSIVE SumOfValues(_)
\* the sum of the notional value of the BUY and SELL trades
SumOfValues(trades) ==
    IF trades = <<>> THEN 0 ELSE trades[1].value + SumOfValues(Tail(trades))

\* C40: when the run is over, final_capital is initial_capital plus the sum
\* of the P&L of all SELL trades (the sale at the end included) minus the
\* commission rate times the sum of the notional value of every BUY and SELL
\* trade; the P&L recorded by a SELL is its notional minus the notional of
\* the BUY just before it, with no commission in it.  (For the runs whose
\* amounts are held exactly.)
C40_AccountingIdentity ==
    (bt.pc = "done" /\ BtExact)
    => /\ TimesExact(SumOfValues(bt.results.trades), bt.commission)
       /\ bt.results.final_capital
            = bt.results.initial_capital + SumOfSellPnl(bt.results.trades)
              - Times(SumOfValues(bt.results.trades), bt.commission)
       /\ \A k \in 1..Len(bt.results.trades) :
              bt.results.trades[k].type = "SELL"
              => /\ k > 1
                 /\ bt.results.trades[k - 1].type = "BUY"
                 /\ bt.results.trades[k].pnl
                      = bt.results.trades[k].value - bt.results.trades[k - 1].value

\* a run at a commission with a Buy and a Sell in the loop at a gain, and a
\* second Buy sold at the end
C40_Witness ==
    /\ bt.pc = "done"
    /\ BtExact
    /\ bt.commission.num > 0
    /\ Len(bt.results.trades) = 4
    /\ bt.results.trades[2].pnl > 0
    /\ bt.results.trades[4].date = Len(bt.close) - 1
    /\ bt.signal[Len(bt.close)] # -1

====
